---- MODULE Spec2Model ----
(***************************************************************************)
(* The permission gate (core/permission_manager.py) and its audit trail    *)
(* (core/logger.py) as a state machine.                                    *)
(*                                                                         *)
(* A Python string is a sequence of one-character strings; an f-string     *)
(* prefix is kept as one opaque symbol in front of the interpolated text.  *)
(* Optional[str] values use None, a one-symbol sequence no string holds.   *)
(***************************************************************************)
EXTENDS Integers, Sequences, FiniteSets, TLC

\* ------------------------------------------------------------------ bounds
\* API calls (check, policy mutation, log, clear, ...) made in one behaviour.
MaxOps == 2
\* Last clock second of a behaviour (backup names are second-granular).
MaxClock == 1
\* A log() call starts while the live file and the backups together hold
\* fewer lines.
MaxLines == 2

\* ----------------------------------------------------------------- strings
None == <<"<None>">>

LowerChar(c) ==
    CASE c = "A" -> "a"
      [] c = "B" -> "b"
      [] c = "E" -> "e"
      [] c = "N" -> "n"
      [] c = "S" -> "s"
      [] c = "Y" -> "y"
      [] OTHER -> c

\* str.lower()
Lower(s) == [i \in 1..Len(s) |-> LowerChar(s[i])]

\* `p in t` for strings
IsSubstring(p, t) ==
    \E i \in 0..(Len(t) - Len(p)) : SubSeq(t, i + 1, i + Len(p)) = p

\* Index of the "]" closing the character class that opens at p[1] = "[",
\* or 0 when the class is not closed: the scan of fnmatch.translate, which
\* steps over a leading "!" and over a "]" standing first in the class.
ClassEnd(p) ==
    LET n  == Len(p)
        j1 == IF 2 <= n /\ p[2] = "!" THEN 3 ELSE 2
        j2 == IF j1 <= n /\ p[j1] = "]" THEN j1 + 1 ELSE j1
        closers == {j \in j2..n : p[j] = "]"}
    IN  IF closers = {} THEN 0
        ELSE CHOOSE j \in closers : \A k \in closers : j <= k

\* Whether character c is accepted by the class p[1..j] = "[" stuff "]".
\* (The alphabet of the model has no "-", so a class holds no range.)
ClassAccepts(p, j, c) ==
    LET stuff == SubSeq(p, 2, j - 1)
    IN  IF stuff = <<"!">> THEN TRUE
        ELSE IF stuff[1] = "!"
             THEN \A k \in 2..Len(stuff) : stuff[k] # c
             ELSE \E k \in 1..Len(stuff) : stuff[k] = c

\* fnmatch.fnmatch(s, p) on a case-sensitive platform: "*" any run, "?" any
\* one character, "[seq]" / "[!seq]" one character in / not in seq, anything
\* else itself; the whole of s must match.
RECURSIVE Fnmatch(_, _)
Fnmatch(s, p) ==
    IF p = <<>> THEN s = <<>>
    ELSE LET c == Head(p) IN
         IF c = "*"
         THEN \E k \in 0..Len(s) : Fnmatch(SubSeq(s, k + 1, Len(s)), Tail(p))
         ELSE IF c = "?"
         THEN s # <<>> /\ Fnmatch(Tail(s), Tail(p))
         ELSE IF c = "[" /\ ClassEnd(p) # 0
         THEN /\ s # <<>>
              /\ ClassAccepts(p, ClassEnd(p), Head(s))
              /\ Fnmatch(Tail(s), SubSeq(p, ClassEnd(p) + 1, Len(p)))
         ELSE s # <<>> /\ Head(s) = c /\ Fnmatch(Tail(s), Tail(p))

\* ------------------------------------------------------------------ levels
READ == 0
SUGGEST == 1
SAFE_WRITE == 2
SYSTEM_WRITE == 3
EXECUTE == 4
ADMIN == 5
PermissionLevel == {READ, SUGGEST, SAFE_WRITE, SYSTEM_WRITE, EXECUTE, ADMIN}

\* ------------------------------------------------------- requests, results
S_ab == <<"a", "b">>
S_AB == <<"A", "B">>
S_aStar == <<"a", "*">>
S_c == <<"c">>
S_class == <<"[", "a", "]">>
S_x == <<"x">>
S_xAB == <<"x", "A", "B">>
S_Ab == <<"A", "b">>

\* ActionRequest without its level: action_type, description, target.
\* (parameters is None in every request of the model.)
Subjects ==
    { [action_type |-> S_ab, description |-> S_x, target |-> None],
      [action_type |-> S_c, description |-> S_xAB, target |-> None],
      [action_type |-> S_class, description |-> S_x, target |-> S_Ab] }

ActionRequest ==
    { [action_type |-> s.action_type, description |-> s.description,
       target |-> s.target, required_level |-> l] :
          s \in Subjects, l \in PermissionLevel }

\* Patterns handed to the policy mutation calls.
Patterns == {S_ab, S_aStar, S_class}

\* Mutant: the dry_run flag keeps its default.
ActionResult_DryRunDefault(success, status, message, dry_run) ==
    [success |-> success, status |-> status, message |-> message,
     dry_run |-> FALSE]

\* Mutant: the result carries no message.
ActionResult_NoMessage(success, status, message, dry_run) ==
    [success |-> success, status |-> status, message |-> "",
     dry_run |-> dry_run]

\* ActionResult (data is None in every result of the gate).
ActionResult(success, status, message, dry_run) ==
    [success |-> success, status |-> status, message |-> message,
     dry_run |-> dry_run]

\* ------------------------------------------------------------- audit trail
\* ActionType.PERMISSION.value, ActionType.WRITE.value
PERMISSION == "permission"
WRITE == "write"

\* AuditEntry.create at time ts; user_approved is "True", "False" or "None";
\* metadata is a dict as the set of its items.
AuditEntry(ts, type, description, level, approved, status, result, metadata) ==
    [timestamp |-> ts, action_type |-> type,
     action_description |-> description, permission_level |-> level,
     user_approved |-> approved, status |-> status, result |-> result,
     metadata |-> metadata]

\* `metadata or {}` of AuditEntry.create
EmptyDict == {}

\* Python values other than strings that a metadata dict may hold, and the
\* JSON values of a line: a tuple and a list of one-character strings, a
\* JSON array, the JSON null. Each begins with a symbol no string holds.
PyTuple(items) == <<"<tuple>">> \o items
PyList(items) == <<"<list>">> \o items
JArray(items) == <<"<array>">> \o items
JNull == <<"<null>">>

\* A dict key that is the int 1 and not the str "1".
IntKey1 == "<int 1>"

\* json.dumps of a value: None becomes null, a tuple and a list become an
\* array, a string is written with its characters.
JsonValue(v) ==
    IF v = None THEN JNull
    ELSE IF v # <<>> /\ Head(v) \in {"<tuple>", "<list>"} THEN JArray(Tail(v))
    ELSE v

\* json.dumps of a dict key: a key that is no string is written as one.
JsonKey(k) == IF k = IntKey1 THEN "1" ELSE k

\* json.dumps of user_approved: True, False, None.
JsonBool(b) ==
    CASE b = "True" -> "true"
      [] b = "False" -> "false"
      [] b = "None" -> "null"

\* json.loads of a value: null becomes None, an array a list.
PyValue(j) ==
    IF j = JNull THEN None
    ELSE IF j # <<>> /\ Head(j) = "<array>" THEN PyList(Tail(j))
    ELSE j

\* json.loads of true, false, null.
PyBool(j) ==
    CASE j = "true" -> "True"
      [] j = "false" -> "False"
      [] j = "null" -> "None"

\* One line of the store: the JSON object json.dumps(asdict(e)) writes.
ToJson(e) ==
    [json |-> "object",
     members |-> [f \in DOMAIN e |->
        CASE f = "user_approved" -> JsonBool(e[f])
          [] f = "result" -> JsonValue(e[f])
          [] f = "metadata" ->
                {<<JsonKey(item[1]), JsonValue(item[2])>> : item \in e[f]}
          [] OTHER -> e[f]]]

\* What one write() of the operating system carries of the text
\* `entry.to_json() + "\n"`: all of it ("whole"); or its beginning, up to a
\* character ("head") or into the bytes of a character ("head_cut", the text
\* is written with ensure_ascii=False); or the rest with the newline ("tail",
\* "tail_cut").
Chunk(e, part) == [of |-> e, part |-> part]

\* The part that completes a beginning.
RestOf(part) == IF part = "head" THEN "tail" ELSE "tail_cut"

\* The line that a run of chunks without a newline between them spells: the
\* JSON object of e when they are the text of e from its first to its last
\* character, closed by the newline; otherwise text that is no JSON value.
\* `open` says that the newline has not been written yet.
TextLine(parts, open) ==
    IF ~open /\ parts = <<Chunk(parts[1].of, "whole")>>
    THEN ToJson(parts[1].of)
    ELSE IF /\ ~open
            /\ parts[1].part \in {"head", "head_cut"}
            /\ parts = <<parts[1], Chunk(parts[1].of, RestOf(parts[1].part))>>
    THEN ToJson(parts[1].of)
    ELSE [json |-> "fragments", parts |-> parts, open |-> open]

\* One write() on a file opened with "a": the chunk goes to the end of the
\* file, onto the last line when that line has no newline yet.
FileWrite(lines, chunk) ==
    LET n == Len(lines)
        joins == n > 0 /\ lines[n].json = "fragments" /\ lines[n].open
        parts == IF joins THEN Append(lines[n].parts, chunk) ELSE <<chunk>>
        before == IF joins THEN SubSeq(lines, 1, n - 1) ELSE lines
    IN  Append(before, TextLine(parts, chunk.part \in {"head", "head_cut"}))

VARIABLES
    blacklist,          \* PermissionManager.blacklist
    auto_approve,       \* PermissionManager.auto_approve
    whitelist,          \* PermissionManager.whitelist
    approval_callback,  \* "None" or "callable"
    store,              \* lines of the live log file
    backups,            \* backup files by the second in their name
    now,                \* the clock, in seconds
    pc,                 \* "idle", or where check_permission is blocked
    call,               \* the running (or last) check: action, dry_run
    ret,                \* what the last call returned
    asked,              \* approval requests made by the running (last) check
    mark,               \* length of the store when that check began
    learned,            \* action types blacklisted by a `never` answer and
                        \* not removed from the blacklist since
    ops,                \* API calls made so far
    writers,            \* the log() calls in progress, by thread
    config_file,        \* the document at config_path
    disk                \* the paths at which a file exists

vars == <<blacklist, auto_approve, whitelist, approval_callback, store,
          backups, now, pc, call, ret, asked, mark, learned, ops, writers,
          config_file, disk>>

policy == <<blacklist, auto_approve, whitelist, approval_callback>>

\* A file name under which no file exists (no file holds this line).
NoFile == <<[json |-> "<no file>"]>>
NoCall == [action |-> None, dry_run |-> FALSE]
NoReturn == [op |-> "none"]
NotAsked == [callback |-> 0, prompt |-> 0]

\* Mutant: the file is opened with "w".
LogWrite_Truncates(lines, e) == <<ToJson(e)>>

\* AuditLogger.log with no other thread between its open and its close:
\* open(path, "a"), and the line reaches the file whole.
LogWrite(lines, e) == FileWrite(lines, Chunk(e, "whole"))

\* Mutant: nothing is written.
LogAction_Silent(lines, type, text, level, approved, status, result, metadata) ==
    lines

\* AuditLogger.log_action: create the entry at the current time, append it.
LogAction(lines, type, text, level, approved, status, result, metadata) ==
    LogWrite(lines,
        AuditEntry(now, type, text, level, approved, status, result, metadata))

\* --------------------------------------------------------- permission gate
\* Mutant: the pattern compared as a plain string.
MatchesPattern_Literal(action, pattern) == action.action_type = pattern

\* ActionRequest.matches_pattern
MatchesPattern(action, pattern) == Fnmatch(action.action_type, pattern)

\* Truth value of an Optional[str]: None and "" are false.
Truthy(x) == x # None /\ x # <<>>

\* Mutant: the description is not searched.
PatternBlocks_NoDescription(action, pattern) ==
    IF MatchesPattern(action, pattern) THEN TRUE
    ELSE Truthy(action.target)
         /\ IsSubstring(Lower(pattern), Lower(action.target))

\* The three tests _is_blacklisted makes for one pattern, in its order.
PatternBlocks(action, pattern) ==
    IF MatchesPattern(action, pattern) THEN TRUE
    ELSE IF Truthy(action.target)
            /\ IsSubstring(Lower(pattern), Lower(action.target)) THEN TRUE
    ELSE IsSubstring(Lower(pattern), Lower(action.description))

\* Mutant: any entry of the list blocks every request.
BlacklistScan_AnyEntry(action, patterns) == patterns # <<>>

\* The loop of _is_blacklisted over a list of patterns.
RECURSIVE BlacklistScan(_, _)
BlacklistScan(action, patterns) ==
    IF patterns = <<>> THEN FALSE
    ELSE IF PatternBlocks(action, Head(patterns)) THEN TRUE
    ELSE BlacklistScan(action, Tail(patterns))

IsBlacklisted(action) == BlacklistScan(action, blacklist)

\* The loop of _is_auto_approved.
RECURSIVE AutoApproveScan(_, _)
AutoApproveScan(action, patterns) ==
    IF patterns = <<>> THEN FALSE
    ELSE IF MatchesPattern(action, Head(patterns)) THEN TRUE
    ELSE AutoApproveScan(action, Tail(patterns))

\* Mutant: the whitelist mapping is consulted.
IsAutoApproved_Whitelist(action) ==
    \E pattern \in DOMAIN whitelist : MatchesPattern(action, pattern)

IsAutoApproved(action) == AutoApproveScan(action, auto_approve)

\* str(x) inside an f-string
Fmt(x) == IF x = None THEN <<"N", "o", "n", "e">> ELSE x

StartsWith(s, prefix) ==
    Len(prefix) <= Len(s) /\ SubSeq(s, 1, Len(prefix)) = prefix

\* _generate_preview, for a request without parameters.
GeneratePreview(action) ==
    IF StartsWith(action.action_type, <<"d", "e", "l", "e", "t", "e">>)
    THEN <<"This will DELETE: ">> \o Fmt(action.target)
    ELSE IF StartsWith(action.action_type, <<"w", "r", "i", "t", "e">>)
    THEN <<"This will WRITE to: ">> \o Fmt(action.target)
    ELSE IF StartsWith(action.action_type, <<"e", "x", "e", "c", "u", "t", "e">>)
    THEN <<"This will EXECUTE: ">> \o Fmt(action.target)
    ELSE IF StartsWith(action.action_type, <<"m", "o", "v", "e">>)
    THEN <<"This will MOVE: ">> \o Fmt(action.target)
    ELSE <<"This will perform: ">> \o action.description

Returned(result) == [op |-> "check", result |-> result]

\* Mutant: the request is not logged.
PendingEntry_Omitted(lines, action) == lines

\* The record check_permission writes first.
PendingEntry(lines, action) ==
    LogAction(lines, PERMISSION,
              <<"Permission check: ">> \o action.description,
              action.required_level, "None", "pending", None,
              {<<"action_type", action.action_type>>,
               <<"target", action.target>>})

\* Mutant: the auto-approve list is consulted before the blacklist.
Route_AllowFirst(action, dry_run) ==
    IF IsAutoApproved(action) THEN "auto_approved"
    ELSE IF IsBlacklisted(action) THEN "blacklisted"
    ELSE IF action.required_level = READ THEN "read"
    ELSE IF action.required_level = SUGGEST \/ dry_run THEN "dry_run"
    ELSE "request_approval"

\* Mutant: auto-approval stops below ADMIN.
Route_AllowBelowAdmin(action, dry_run) ==
    IF IsBlacklisted(action) THEN "blacklisted"
    ELSE IF IsAutoApproved(action) /\ action.required_level < ADMIN
    THEN "auto_approved"
    ELSE IF action.required_level = READ THEN "read"
    ELSE IF action.required_level = SUGGEST \/ dry_run THEN "dry_run"
    ELSE "request_approval"

\* Mutant: the dry_run argument is not looked at.
Route_DryRunIgnored(action, dry_run) ==
    IF IsBlacklisted(action) THEN "blacklisted"
    ELSE IF IsAutoApproved(action) THEN "auto_approved"
    ELSE IF action.required_level = READ THEN "read"
    ELSE IF action.required_level = SUGGEST THEN "dry_run"
    ELSE "request_approval"

\* Mutant: no rule for READ.
Route_NoReadRule(action, dry_run) ==
    IF IsBlacklisted(action) THEN "blacklisted"
    ELSE IF IsAutoApproved(action) THEN "auto_approved"
    ELSE IF action.required_level = SUGGEST \/ dry_run THEN "dry_run"
    ELSE "request_approval"

\* The branch check_permission takes after it has logged the request: the
\* order of its tests.
Route(action, dry_run) ==
    IF IsBlacklisted(action) THEN "blacklisted"
    ELSE IF IsAutoApproved(action) THEN "auto_approved"
    ELSE IF action.required_level = READ THEN "read"
    ELSE IF action.required_level = SUGGEST \/ dry_run THEN "dry_run"
    ELSE "request_approval"

\* check_permission, up to its return or to the point where it blocks on
\* the approval callback or on input().
CheckPermission(action, dry_run) ==
    LET logged == PendingEntry(store, action)
        route == Route(action, dry_run) IN
    /\ pc = "idle"
    /\ ops < MaxOps
    /\ ops' = ops + 1
    /\ call' = [action |-> action, dry_run |-> dry_run]
    /\ mark' = Len(store)
    /\ CASE route = "blacklisted" ->
            /\ store' = LogAction(logged, PERMISSION,
                                  <<"BLOCKED: ">> \o action.description,
                                  action.required_level, "False", "denied",
                                  <<"Blacklisted action">>, EmptyDict)
            /\ ret' = Returned(ActionResult(FALSE, "DENIED",
                        "This action is blacklisted and cannot be executed.",
                        dry_run))
            /\ pc' = "idle"
            /\ asked' = NotAsked
         [] route = "auto_approved" ->
            /\ store' = LogAction(logged, PERMISSION,
                                  <<"Auto-approved: ">> \o action.description,
                                  action.required_level, "True", "approved",
                                  <<"Auto-approved action">>, EmptyDict)
            /\ ret' = Returned(ActionResult(TRUE, "APPROVED",
                        "Action is auto-approved.", dry_run))
            /\ pc' = "idle"
            /\ asked' = NotAsked
         [] route = "read" ->
            /\ store' = logged
            /\ ret' = Returned(ActionResult(TRUE, "APPROVED",
                        "Read operations are always permitted.", dry_run))
            /\ pc' = "idle"
            /\ asked' = NotAsked
         [] route = "dry_run" ->
            /\ store' = logged
            /\ ret' = Returned(ActionResult(TRUE, "DRY_RUN",
                        "Dry-run mode - action will be previewed only.", TRUE))
            /\ pc' = "idle"
            /\ asked' = NotAsked
         [] route = "request_approval" ->
            /\ store' = logged
            /\ IF approval_callback = "None"
               THEN /\ pc' = "cli"
                    /\ asked' = [callback |-> 0, prompt |-> 1]
                    /\ ret' = [op |-> "running"]
               ELSE /\ pc' = "callback"
                    /\ asked' = [callback |-> 1, prompt |-> 0]
                    /\ ret' = [op |-> "running",
                               args |-> <<action.description,
                                          GeneratePreview(action)>>]
    /\ UNCHANGED <<policy, backups, now, learned, writers, config_file, disk>>

\* Mutant: every answer is recorded as an approval.
VerdictStatus_Approved(approved) == "approved"

\* ActionStatus.APPROVED if approved else ActionStatus.DENIED, as its value.
VerdictStatus(approved) == IF approved THEN "approved" ELSE "denied"

\* _approval_callback(description, preview) returns: the rest of
\* _request_approval.
CallbackReturns(approved) ==
    LET action == call.action
        preview == GeneratePreview(action) IN
    /\ pc = "callback"
    /\ store' = LogAction(store, PERMISSION,
            <<IF approved THEN "User approved: " ELSE "User denied: ">>
                \o action.description,
            action.required_level,
            IF approved THEN "True" ELSE "False",
            VerdictStatus(approved),
            None, {<<"preview", preview>>})
    /\ ret' = Returned(ActionResult(approved,
                VerdictStatus(approved),
                IF approved THEN "Action approved by user."
                            ELSE "Action denied by user.",
                call.dry_run))
    /\ pc' = "idle"
    /\ UNCHANGED <<policy, backups, now, call, asked, mark, learned, ops,
                   writers, config_file, disk>>

\* Mutant: the exception is caught and answered with a denial.
CallbackRaises_Caught ==
    /\ pc = "callback"
    /\ ret' = Returned(ActionResult(FALSE, "denied", "Action denied by user.",
                                    call.dry_run))
    /\ pc' = "idle"
    /\ UNCHANGED <<policy, store, backups, now, call, asked, mark, learned,
                   ops, writers, config_file, disk>>

\* _approval_callback raises: nothing catches it, check_permission is left
\* by the exception.
CallbackRaises ==
    /\ pc = "callback"
    /\ ret' = [op |-> "check_raised"]
    /\ pc' = "idle"
    /\ UNCHANGED <<policy, store, backups, now, call, asked, mark, learned,
                   ops, writers, config_file, disk>>

\* str.strip() for the blank " "
RECURSIVE LStrip(_)
LStrip(s) == IF s # <<>> /\ Head(s) = " " THEN LStrip(Tail(s)) ELSE s

RECURSIVE RStrip(_)
RStrip(s) ==
    IF s # <<>> /\ s[Len(s)] = " " THEN RStrip(SubSeq(s, 1, Len(s) - 1)) ELSE s

Strip(s) == LStrip(RStrip(s))

\* What the user types at the prompt; EndOfInput stands for EOFError and
\* KeyboardInterrupt.
EndOfInput == <<"<EOF>">>
Inputs ==
    { <<"y">>, <<"y", "e", "s">>, <<"Y", "E", "S">>, <<"n">>, <<"n", "o">>,
      <<>>, <<"x">>, <<"n", "e", "v", "e", "r">>,
      <<" ", "N", "e", "v", "e", "r", " ">>, EndOfInput }

\* input(...).strip().lower(), "n" on EOFError / KeyboardInterrupt
Response(typed) == IF typed = EndOfInput THEN <<"n">> ELSE Lower(Strip(typed))

\* add_to_blacklist: the list and the store afterwards.
BlacklistAdd(list, pattern) ==
    IF \E i \in 1..Len(list) : list[i] = pattern THEN list
    ELSE Append(list, pattern)

BlacklistAddLog(list, lines, pattern) ==
    IF \E i \in 1..Len(list) : list[i] = pattern THEN lines
    ELSE LogAction(lines, PERMISSION, <<"Added to blacklist: ">> \o pattern,
                   ADMIN, "None", "executed", None, EmptyDict)

\* Mutant: the prompt is shown again, whatever was typed.
CliApproval_Reprompts(typed) ==
    /\ pc = "cli"
    /\ asked.prompt < 3
    /\ asked' = [asked EXCEPT !.prompt = @ + 1]
    /\ UNCHANGED <<policy, store, backups, now, pc, call, ret, mark, learned,
                   ops, writers, config_file, disk>>

\* input() returns: the rest of _cli_approval.
CliApproval(typed) ==
    LET action == call.action
        response == Response(typed)
        approved == response \in {<<"y">>, <<"y", "e", "s">>} IN
    /\ pc = "cli"
    /\ IF response = <<"n", "e", "v", "e", "r">> THEN
            /\ blacklist' = BlacklistAdd(blacklist, action.action_type)
            /\ store' = BlacklistAddLog(blacklist, store, action.action_type)
            /\ ret' = Returned(ActionResult(FALSE, "BLACKLISTED",
                        "Action added to blacklist.", call.dry_run))
            /\ learned' = learned \cup {action.action_type}
       ELSE
            /\ blacklist' = blacklist
            /\ learned' = learned
            /\ store' = LogAction(store, PERMISSION,
                    <<IF approved THEN "CLI approved: " ELSE "CLI denied: ">>
                        \o action.description,
                    action.required_level,
                    IF approved THEN "True" ELSE "False",
                    VerdictStatus(approved),
                    None, EmptyDict)
            /\ ret' = Returned(ActionResult(approved,
                        VerdictStatus(approved),
                        IF approved THEN "Action approved."
                                    ELSE "Action denied.",
                        call.dry_run))
    /\ pc' = "idle"
    /\ UNCHANGED <<auto_approve, whitelist, approval_callback, backups, now,
                   call, asked, mark, ops, writers, config_file, disk>>

\* set_approval_callback
SetApprovalCallback(callback) ==
    /\ pc = "idle"
    /\ ops < MaxOps
    /\ ops' = ops + 1
    /\ approval_callback' = callback
    /\ ret' = [op |-> "set_approval_callback"]
    /\ UNCHANGED <<blacklist, auto_approve, whitelist, store, backups, now,
                   pc, call, asked, mark, learned, writers, config_file, disk>>

\* dict[key] = value
DictSet(d, key, value) ==
    [k \in DOMAIN d \cup {key} |-> IF k = key THEN value ELSE d[k]]

\* add_to_whitelist
AddToWhitelist(pattern, level) ==
    /\ pc = "idle"
    /\ ops < MaxOps
    /\ ops' = ops + 1
    /\ whitelist' = DictSet(whitelist, pattern, level)
    /\ store' = LogAction(store, PERMISSION,
                          <<"Added to whitelist: ">> \o pattern, level,
                          "None", "executed", None, EmptyDict)
    /\ ret' = [op |-> "add_to_whitelist", pattern |-> pattern, level |-> level]
    /\ UNCHANGED <<blacklist, auto_approve, approval_callback, backups, now,
                   pc, call, asked, mark, learned, writers, config_file, disk>>

\* add_to_blacklist
AddToBlacklist(pattern) ==
    /\ pc = "idle"
    /\ ops < MaxOps
    /\ ops' = ops + 1
    /\ blacklist' = BlacklistAdd(blacklist, pattern)
    /\ store' = BlacklistAddLog(blacklist, store, pattern)
    /\ ret' = [op |-> "add_to_blacklist", pattern |-> pattern]
    /\ UNCHANGED <<auto_approve, whitelist, approval_callback, backups, now,
                   pc, call, asked, mark, learned, writers, config_file, disk>>

\* list.remove(x): drop the first item equal to x.
RECURSIVE ListRemove(_, _)
ListRemove(list, x) ==
    IF list = <<>> THEN <<>>
    ELSE IF Head(list) = x THEN Tail(list)
    ELSE <<Head(list)>> \o ListRemove(Tail(list), x)

\* remove_from_blacklist
RemoveFromBlacklist(pattern) ==
    LET found == \E i \in 1..Len(blacklist) : blacklist[i] = pattern IN
    /\ pc = "idle"
    /\ ops < MaxOps
    /\ ops' = ops + 1
    /\ blacklist' = IF found THEN ListRemove(blacklist, pattern) ELSE blacklist
    /\ store' = IF found
                THEN LogAction(store, PERMISSION,
                               <<"Removed from blacklist: ">> \o pattern,
                               ADMIN, "None", "executed", None, EmptyDict)
                ELSE store
    /\ ret' = [op |-> "remove_from_blacklist", pattern |-> pattern,
               value |-> found]
    /\ learned' = learned \ {pattern}
    /\ UNCHANGED <<auto_approve, whitelist, approval_callback, backups, now,
                   pc, call, asked, mark, writers, config_file, disk>>

\* ------------------------------------------------------------ logger calls
\* What a collaborator logs itself through log_action: FileOperator's
\* "Permission denied" record.
CollaboratorEntries ==
    { [description |-> <<"Permission denied: ">> \o S_x, level |-> SAFE_WRITE,
       approved |-> "False", status |-> "denied"] }

\* AuditLogger.log_action called from outside the gate.
LogActionCall(e) ==
    /\ pc = "idle"
    /\ ops < MaxOps
    /\ ops' = ops + 1
    /\ store' = LogAction(store, WRITE, e.description, e.level, e.approved,
                          e.status, None, EmptyDict)
    /\ ret' = [op |-> "log_action"]
    /\ UNCHANGED <<policy, backups, now, pc, call, asked, mark, learned,
                   writers, config_file, disk>>

\* The threads (or processes) that call log() on the one path.
Threads == {"t1", "t2"}

Idle == [pc |-> "idle"]

\* Mutant: confirm is not looked at.
MustClear_Always(confirm) == TRUE

\* The test clear makes of its argument.
MustClear(confirm) == confirm

\* Mutant: the store is removed, no backup is kept.
BackupFiles_None(files, name, lines) == files

\* The backup files after rename: Path.rename replaces a backup of the same
\* name.
BackupFiles(files, name, lines) == [files EXCEPT ![name] = lines]

\* AuditLogger.clear. The backup is named by the second of the clock.
Clear(confirm) ==
    /\ pc = "idle"
    /\ ops < MaxOps
    /\ ops' = ops + 1
    /\ IF MustClear(confirm)
       THEN /\ backups' = BackupFiles(backups, now, store)
            /\ store' = <<>>
            /\ ret' = [op |-> "clear", confirm |-> confirm, value |-> TRUE]
       ELSE /\ UNCHANGED <<backups, store>>
            /\ ret' = [op |-> "clear", confirm |-> confirm, value |-> FALSE]
    /\ UNCHANGED <<policy, now, pc, call, asked, mark, learned, writers,
                   config_file, disk>>

\* The log_action calls of the collaborators: FileOperator's "Permission
\* denied" and "Created file" records.
LogCalls ==
    { [type |-> WRITE, description |-> <<"Permission denied: Create ">> \o S_x,
       level |-> SAFE_WRITE, approved |-> "False", status |-> "denied",
       result |-> None],
      [type |-> WRITE, description |-> <<"Created file: ">> \o S_x,
       level |-> SAFE_WRITE, approved |-> "None", status |-> "executed",
       result |-> <<"File created (">> \o S_x \o <<" bytes)">>] }

\* The number of lines in the backups of the given names.
RECURSIVE BackupLines(_, _)
BackupLines(files, names) ==
    IF names = {} THEN 0
    ELSE LET t == CHOOSE x \in names : TRUE
         IN  (IF files[t] = NoFile THEN 0 ELSE Len(files[t]))
                + BackupLines(files, names \ {t})

\* The number of lines on disk, live and backed up.
StoredLines == Len(store) + BackupLines(backups, DOMAIN backups)

\* log_action called while no other call runs: the entry is created with
\* the time of the clock and its line is appended.
LogActionLine(c) ==
    /\ StoredLines < MaxLines
    /\ store' = LogAction(store, c.type, c.description, c.level, c.approved,
                          c.status, c.result, EmptyDict)
    /\ ret' = [op |-> "log_action"]
    /\ UNCHANGED <<policy, backups, now, pc, call, asked, mark, learned, ops,
                   writers, config_file, disk>>

\* log_action on thread t, up to the open(path, "a") of log: the entry is
\* created with the time of the clock and the file is opened.
LogOpen(t, c) ==
    /\ writers[t] = Idle
    /\ StoredLines < MaxLines
    /\ writers' = [writers EXCEPT ![t] =
            [pc |-> "opened",
             entry |-> AuditEntry(now, c.type, c.description, c.level,
                                  c.approved, c.status, c.result, EmptyDict)]]
    /\ UNCHANGED <<policy, store, backups, now, pc, call, ret, asked, mark,
                   learned, ops, config_file, disk>>

\* f.write(entry.to_json() + "\n") and the close of the file: the buffered
\* text goes to the file, where another thread may find all of it or, for a
\* while, its beginning only.
LogFlush(t, part) ==
    /\ writers[t].pc = "opened"
    /\ store' = FileWrite(store, Chunk(writers[t].entry, part))
    /\ IF part = "whole"
       THEN /\ writers' = [writers EXCEPT ![t] = Idle]
            /\ ret' = [op |-> "log_action"]
       ELSE /\ writers' = [writers EXCEPT ![t] =
                    [pc |-> "head_written", entry |-> writers[t].entry,
                     rest |-> RestOf(part)]]
            /\ ret' = ret
    /\ UNCHANGED <<policy, backups, now, pc, call, asked, mark, learned, ops,
                   config_file, disk>>

\* The rest of the text reaches the file, and log_action returns.
LogFlushRest(t) ==
    /\ writers[t].pc = "head_written"
    /\ store' = FileWrite(store, Chunk(writers[t].entry, writers[t].rest))
    /\ writers' = [writers EXCEPT ![t] = Idle]
    /\ ret' = [op |-> "log_action"]
    /\ UNCHANGED <<policy, backups, now, pc, call, asked, mark, learned, ops,
                   config_file, disk>>

\* A second of the clock passes.
Tick ==
    /\ now < MaxClock
    /\ now' = now + 1
    /\ UNCHANGED <<policy, store, backups, pc, call, ret, asked, mark,
                   learned, ops, writers, config_file, disk>>

\* The fields of AuditEntry.
AuditFields ==
    {"timestamp", "action_type", "action_description", "permission_level",
     "user_approved", "status", "result", "metadata"}

\* What AuditEntry.from_json raises on a line: "JSONDecodeError" when
\* json.loads finds no JSON text, "TypeError" when cls(**data) is handed a
\* value that is no dict or a dict whose keys are not exactly the fields,
\* "none" otherwise. (The values of the fields are not looked at.)
FromJsonRaises(line) ==
    IF line.json = "fragments" THEN "JSONDecodeError"
    ELSE IF line.json = "object" /\ DOMAIN line.members = AuditFields
    THEN "none"
    ELSE "TypeError"

\* AuditEntry.from_json of a line on which it raises nothing.
FromJson(line) ==
    [f \in DOMAIN line.members |->
        CASE f = "user_approved" -> PyBool(line.members[f])
          [] f = "result" -> PyValue(line.members[f])
          [] f = "metadata" ->
                {<<item[1], PyValue(item[2])>> : item \in line.members[f]}
          [] OTHER -> line.members[f]]

\* Whether the bytes of a line are no UTF-8 text, so that reading the line
\* from a file opened with encoding="utf-8" raises UnicodeDecodeError: some
\* character of it is cut and not followed by its other bytes.
Undecodable(line) ==
    /\ line.json = "fragments"
    /\ \E i \in 1..Len(line.parts) :
          \/ /\ line.parts[i].part = "head_cut"
             /\ \/ i = Len(line.parts)
                \/ line.parts[i + 1] # Chunk(line.parts[i].of, "tail_cut")
          \/ /\ line.parts[i].part = "tail_cut"
             /\ \/ i = 1
                \/ line.parts[i - 1] # Chunk(line.parts[i].of, "head_cut")

\* How a call ends: with a value, or by an exception.
Returns(value) == [raised |-> "none", value |-> value]
Raises(error) == [raised |-> error]

\* reversed(list)
Reversed(s) == [i \in 1..Len(s) |-> s[Len(s) + 1 - i]]

\* Mutant: the slice lines[:limit].
LastLines_First(lines, limit) ==
    SubSeq(lines, 1, IF limit < Len(lines) THEN limit ELSE Len(lines))

\* lines[-limit:]
LastLines(lines, limit) ==
    LET n == Len(lines)
        start == IF -limit < 0 THEN (IF n - limit < 0 THEN 0 ELSE n - limit)
                 ELSE (IF -limit > n THEN n ELSE -limit)
    IN  SubSeq(lines, start + 1, n)

\* The loop of get_recent over the lines it kept: JSONDecodeError is caught
\* and the line passed over, any other exception leaves the call.
RECURSIVE RecentLoop(_, _)
RecentLoop(lines, entries) ==
    IF lines = <<>> THEN Returns(entries)
    ELSE LET error == FromJsonRaises(Head(lines)) IN
         IF error = "none"
         THEN RecentLoop(Tail(lines), Append(entries, FromJson(Head(lines))))
         ELSE IF error = "JSONDecodeError" THEN RecentLoop(Tail(lines), entries)
         ELSE Raises(error)

\* get_recent: f.readlines() reads the whole file, then the loop.
Recent(lines, limit) ==
    IF \E i \in 1..Len(lines) : Undecodable(lines[i])
    THEN Raises("UnicodeDecodeError")
    ELSE RecentLoop(Reversed(LastLines(lines, limit)), <<>>)

\* The scan of get_by_action_type / get_denied_actions: the entries whose
\* `field` is `value`, in file order, until `limit` of them are collected.
\* (`for line in f` reads the next line before the body tests the limit.)
RECURSIVE Scan(_, _, _, _, _)
Scan(lines, limit, field, value, entries) ==
    IF lines = <<>> THEN Returns(entries)
    ELSE IF Undecodable(Head(lines)) THEN Raises("UnicodeDecodeError")
    ELSE IF Len(entries) >= limit THEN Returns(entries)
    ELSE LET error == FromJsonRaises(Head(lines))
             entry == FromJson(Head(lines)) IN
         IF error = "none"
         THEN Scan(Tail(lines), limit, field, value,
                   IF entry[field] = value THEN Append(entries, entry)
                   ELSE entries)
         ELSE IF error = "JSONDecodeError"
         THEN Scan(Tail(lines), limit, field, value, entries)
         ELSE Raises(error)

ByActionType(lines, type, limit) ==
    Scan(lines, limit, "action_type", type, <<>>)

DeniedActions(lines, limit) == Scan(lines, limit, "status", "denied", <<>>)

\* The calendar day of a timestamp: the model's day lasts two seconds.
DateOf(ts) == ts \div 2

\* `date_str in line`: the text of the line holds the date. (A date stands
\* in the timestamp only, which is the first member of a record's text.)
Mentions(line, date) ==
    CASE line.json = "object" ->
            /\ "timestamp" \in DOMAIN line.members
            /\ DateOf(line.members.timestamp) = date
      [] line.json = "fragments" ->
            \E i \in 1..Len(line.parts) :
                /\ line.parts[i].part \in {"whole", "head", "head_cut"}
                /\ DateOf(line.parts[i].of.timestamp) = date
      [] OTHER -> FALSE

\* The scan of get_by_date: the entries of that day, in file order.
RECURSIVE ByDateLoop(_, _, _)
ByDateLoop(lines, date, entries) ==
    IF lines = <<>> THEN Returns(entries)
    ELSE IF Undecodable(Head(lines)) THEN Raises("UnicodeDecodeError")
    ELSE IF ~Mentions(Head(lines), date)
    THEN ByDateLoop(Tail(lines), date, entries)
    ELSE LET error == FromJsonRaises(Head(lines))
             entry == FromJson(Head(lines)) IN
         IF error = "none"
         THEN ByDateLoop(Tail(lines), date,
                         IF DateOf(entry.timestamp) = date
                         THEN Append(entries, entry) ELSE entries)
         ELSE IF error = "JSONDecodeError"
         THEN ByDateLoop(Tail(lines), date, entries)
         ELSE Raises(error)

ByDate(lines, date) == ByDateLoop(lines, date, <<>>)

\* export reads get_recent(limit=10000).
ExportLimit == 10000

\* One row of the csv export: its seven columns, `e.result or ""` last.
CsvRow(e) ==
    <<e.timestamp, e.action_type, e.action_description, e.permission_level,
      e.user_approved, e.status, IF Truthy(e.result) THEN e.result ELSE <<>>>>

\* export: "json", "csv", or ValueError for any other format.
ExportText(lines, format) ==
    LET read == Recent(lines, ExportLimit) IN
    IF read.raised # "none" THEN read
    ELSE IF format = "json" THEN Returns(read.value)
    ELSE IF format = "csv"
    THEN Returns([i \in 1..Len(read.value) |-> CsvRow(read.value[i])])
    ELSE Raises("ValueError")

\* The read-only calls of the logger.
GetRecent(limit) ==
    /\ pc = "idle"
    /\ ops < MaxOps
    /\ ops' = ops + 1
    /\ ret' = [op |-> "get_recent", limit |-> limit,
               outcome |-> Recent(store, limit)]
    /\ UNCHANGED <<policy, store, backups, now, pc, call, asked, mark,
                   learned, writers, config_file, disk>>

GetByActionType(type, limit) ==
    /\ pc = "idle"
    /\ ops < MaxOps
    /\ ops' = ops + 1
    /\ ret' = [op |-> "get_by_action_type", type |-> type, limit |-> limit,
               outcome |-> ByActionType(store, type, limit)]
    /\ UNCHANGED <<policy, store, backups, now, pc, call, asked, mark,
                   learned, writers, config_file, disk>>

GetDeniedActions(limit) ==
    /\ pc = "idle"
    /\ ops < MaxOps
    /\ ops' = ops + 1
    /\ ret' = [op |-> "get_denied_actions", limit |-> limit,
               outcome |-> DeniedActions(store, limit)]
    /\ UNCHANGED <<policy, store, backups, now, pc, call, asked, mark,
                   learned, writers, config_file, disk>>

GetByDate(date) ==
    /\ pc = "idle"
    /\ ops < MaxOps
    /\ ops' = ops + 1
    /\ ret' = [op |-> "get_by_date", date |-> date,
               outcome |-> ByDate(store, date)]
    /\ UNCHANGED <<policy, store, backups, now, pc, call, asked, mark,
                   learned, writers, config_file, disk>>

Export(format) ==
    /\ pc = "idle"
    /\ ops < MaxOps
    /\ ops' = ops + 1
    /\ ret' = [op |-> "export", format |-> format,
               outcome |-> ExportText(store, format)]
    /\ UNCHANGED <<policy, store, backups, now, pc, call, asked, mark,
                   learned, writers, config_file, disk>>

\* ----------------------------------------------------------- configuration
\* A YAML value as yaml.safe_load returns it: null, a string, a list of
\* strings, or a mapping from keys to values.
YNull == [yaml |-> "null"]
YStr(text) == [yaml |-> "str", text |-> text]
YList(items) == [yaml |-> "list", items |-> items]
YMap(members) == [yaml |-> "map", members |-> members]

\* {}
EmptyMap == YMap([k \in {} |-> YNull])

\* What stands at config_path when it is no YAML document: no file, or text
\* on which yaml.safe_load raises.
Absent == [yaml |-> "<no file>"]
Unparseable == [yaml |-> "<not YAML>"]

\* `value or {}`: None, an empty string, list or mapping are false.
Falsy(v) ==
    \/ v.yaml = "null"
    \/ v.yaml = "str" /\ v.text = <<>>
    \/ v.yaml = "list" /\ v.items = <<>>
    \/ v.yaml = "map" /\ DOMAIN v.members = {}

\* dict.get(key, default)
DictGet(m, key, default) ==
    IF key \in DOMAIN m.members THEN m.members[key] ELSE default

\* The lists of _default_config.
DefaultAutoApprove ==
    << <<"l", "i", "s", "t", "_", "f", "i", "l", "e", "s">>,
       <<"r", "e", "a", "d", "_", "f", "i", "l", "e">>,
       <<"g", "e", "t", "_", "s", "y", "s", "t", "e", "m", "_", "i", "n", "f", "o">>,
       <<"g", "e", "t", "_", "t", "i", "m", "e">> >>

DefaultRequireApproval ==
    << <<"d", "e", "l", "e", "t", "e", "_", "*">>,
       <<"e", "x", "e", "c", "u", "t", "e", "_", "*">>,
       <<"w", "r", "i", "t", "e", "_", "*">>,
       <<"m", "o", "v", "e", "_", "*">>,
       <<"m", "o", "d", "i", "f", "y", "_", "*">> >>

DefaultBlacklist ==
    << <<"f", "o", "r", "m", "a", "t", "_", "d", "i", "s", "k">>,
       <<"r", "m", " ", "-", "r", "f", " ", "/">>,
       <<"r", "m", " ", "-", "r", "f", " ", "/", "*">>,
       <<"d", "e", "l", " ", "/", "f", " ", "/", "s", " ", "/", "q", " ", "*">>,
       <<"f", "o", "r", "m", "a", "t", " ", "c", ":">> >>

\* _default_config
DefaultConfig ==
    YMap([k \in {"permissions"} |->
        YMap([j \in {"default_level", "auto_approve", "require_approval",
                     "blacklist"} |->
            CASE j = "default_level" ->
                    YStr(<<"S", "U", "G", "G", "E", "S", "T">>)
              [] j = "auto_approve" -> YList(DefaultAutoApprove)
              [] j = "require_approval" -> YList(DefaultRequireApproval)
              [] j = "blacklist" -> YList(DefaultBlacklist)])])

\* _load_config: the default configuration when the file is absent or when
\* anything raises inside the try (the load itself, or .get on a document
\* that is no mapping); otherwise the value under "friday", or the document
\* when it has no such key.
LoadConfig(file) ==
    IF file = Absent \/ file = Unparseable THEN DefaultConfig
    ELSE LET config == IF Falsy(file) THEN EmptyMap ELSE file IN
         IF config.yaml # "map" THEN DefaultConfig
         ELSE DictGet(config, "friday", config)

\* None where a list of strings is expected: a value no list equals.
NoList == <<None>>

\* The Python object of a list value of the document: a list, or None.
\* (Under the two list keys the documents of the model hold a list of
\* strings or null.)
ListObject(v) == IF v.yaml = "null" THEN NoList ELSE v.items

\* _apply_config, with the whitelist built from auto_approve: .get on a
\* value that is no mapping raises AttributeError, the loop over None
\* raises TypeError; nothing in __init__ catches either.
ApplyConfig(config) ==
    IF config.yaml # "map" THEN Raises("AttributeError")
    ELSE LET perms == DictGet(config, "permissions", EmptyMap) IN
         IF perms.yaml # "map" THEN Raises("AttributeError")
         ELSE LET auto == DictGet(perms, "auto_approve", YList(<<>>))
                  black == DictGet(perms, "blacklist", YList(<<>>)) IN
              IF auto.yaml = "null" THEN Raises("TypeError")
              ELSE Returns([auto_approve |-> auto.items,
                            blacklist |-> ListObject(black)])

\* The YAML value yaml.dump writes for a list attribute of the gate.
ListValue(list) == IF list = NoList THEN YNull ELSE YList(list)

\* dict[key] = value on a mapping of the document
YSet(m, key, value) ==
    YMap([k \in DOMAIN m.members \cup {key} |->
            IF k = key THEN value ELSE m.members[k]])

\* save_config: the document written. The new permissions replace those
\* under an existing "friday" mapping; when the file is absent, or the
\* document has no "friday" key, or anything raises inside the try, the
\* document written holds the new permissions alone.
SavedConfig(file, auto, black) ==
    LET perms == YMap([k \in {"auto_approve", "blacklist"} |->
                        IF k = "auto_approve" THEN ListValue(auto)
                        ELSE ListValue(black)])
        fresh == YMap([k \in {"friday"} |->
                        YMap([j \in {"permissions"} |-> perms])])
    IN
    IF file = Absent \/ file = Unparseable THEN fresh
    ELSE LET existing == IF Falsy(file) THEN EmptyMap ELSE file IN
         IF existing.yaml # "map" THEN fresh
         ELSE IF "friday" \notin DOMAIN existing.members THEN fresh
         ELSE IF existing.members["friday"].yaml # "map" THEN fresh
         ELSE YSet(existing, "friday",
                   YSet(existing.members["friday"], "permissions", perms))

\* ------------------------------------------------------------ construction
\* The permissions of the configuration document the gate is built from.
Configs ==
    { [auto_approve |-> <<>>, blacklist |-> <<>>],
      [auto_approve |-> <<S_ab>>, blacklist |-> <<S_c>>],
      [auto_approve |-> <<S_c, S_aStar>>, blacklist |-> <<S_AB>>],
      [auto_approve |-> <<S_ab>>, blacklist |-> <<S_class, S_ab>>],
      [auto_approve |-> <<>>, blacklist |-> <<S_ab, S_ab>>] }

\* _apply_config: the whitelist built from auto_approve
ConfigWhitelist(patterns) ==
    [p \in {patterns[i] : i \in 1..Len(patterns)} |-> READ]

\* The document that holds these permissions under the "friday" key.
Document(config) ==
    YMap([k \in {"friday"} |->
        YMap([j \in {"permissions"} |->
            YMap([l \in {"auto_approve", "blacklist"} |->
                    YList(config[l])])])])

\* PermissionManager.__init__ on a fresh AuditLogger.
Init ==
    /\ \E config \in Configs :
          /\ config_file = Document(config)
          /\ auto_approve = config.auto_approve
          /\ blacklist = config.blacklist
          /\ whitelist = ConfigWhitelist(config.auto_approve)
    /\ approval_callback = "None"
    /\ store = <<>>
    /\ backups = [t \in 0..MaxClock |-> NoFile]
    /\ now = 0
    /\ pc = "idle"
    /\ call = NoCall
    /\ ret = NoReturn
    /\ asked = NotAsked
    /\ mark = 0
    /\ learned = {}
    /\ ops = 0
    /\ writers = [t \in Threads |-> Idle]
    /\ disk = {}

Next ==
    \/ \E action \in ActionRequest, dry_run \in BOOLEAN :
          CheckPermission(action, dry_run)
    \/ \E approved \in BOOLEAN : CallbackReturns(approved)
    \/ CallbackRaises
    \/ \E typed \in Inputs : CliApproval(typed)
    \/ \E callback \in {"callable"} : SetApprovalCallback(callback)
    \/ \E pattern \in Patterns, level \in {SAFE_WRITE, ADMIN} :
          AddToWhitelist(pattern, level)
    \/ \E pattern \in Patterns : AddToBlacklist(pattern)
    \/ \E pattern \in Patterns : RemoveFromBlacklist(pattern)
    \/ \E e \in CollaboratorEntries : LogActionCall(e)
    \/ \E confirm \in BOOLEAN : Clear(confirm)
    \/ \E limit \in {1} : GetRecent(limit)
    \/ \E limit \in {1} : GetByActionType(PERMISSION, limit)
    \/ \E limit \in {1} : GetDeniedActions(limit)
    \/ \E date \in {0} : GetByDate(date)
    \/ \E format \in {"json"} : Export(format)

\* The gate and its logger, all calls falling within one clock second.
Spec == Init /\ [][Next]_vars

\* What the file at log_path may hold when an AuditLogger is constructed on
\* it (_ensure_log_directory keeps an existing file): nothing; a line that is
\* a JSON value but no object; a record written without the metadata field;
\* a record with a field more; the beginning of a record whose write was cut
\* short, with no newline.
OldEntry ==
    AuditEntry(0, WRITE, <<"Created file: ">> \o S_c, SAFE_WRITE, "None",
               "executed", None, EmptyDict)

ExistingFiles ==
    { <<>>,
      <<[json |-> "array"]>>,
      <<[json |-> "object",
         members |-> [f \in AuditFields \ {"metadata"} |->
                        ToJson(OldEntry).members[f]]]>>,
      <<[json |-> "object",
         members |-> [f \in AuditFields \cup {"host"} |->
                        IF f = "host" THEN S_x
                        ELSE ToJson(OldEntry).members[f]]]>>,
      <<TextLine(<<Chunk(OldEntry, "head")>>, TRUE)>> }

\* AuditLogger.__init__ on a path, the gate left as it is built from an
\* empty configuration.
LogInit ==
    /\ config_file = Document([auto_approve |-> <<>>, blacklist |-> <<>>])
    /\ auto_approve = <<>>
    /\ blacklist = <<>>
    /\ whitelist = ConfigWhitelist(<<>>)
    /\ approval_callback = "None"
    /\ store \in ExistingFiles
    /\ backups = [t \in 0..MaxClock |-> NoFile]
    /\ now = 0
    /\ pc = "idle"
    /\ call = NoCall
    /\ ret = NoReturn
    /\ asked = NotAsked
    /\ mark = 0
    /\ learned = {}
    /\ ops = 0
    /\ writers = [t \in Threads |-> Idle]
    /\ disk = {}

LogNext ==
    \/ \E c \in LogCalls : LogActionLine(c)
    \/ Tick
    \/ \E confirm \in BOOLEAN : Clear(confirm)
    \/ \E limit \in {0, 1, 2} : GetRecent(limit)
    \/ \E type \in {WRITE, PERMISSION}, limit \in {1, 2} :
          GetByActionType(type, limit)
    \/ \E limit \in {1, 2} : GetDeniedActions(limit)
    \/ \E date \in {0, 1} : GetByDate(date)
    \/ \E format \in {"csv", "xml"} : Export(format)

\* The logger alone, called from one thread whose writes reach the file
\* whole: appends, clears and reads while the clock runs.
LogSpec == LogInit /\ [][LogNext]_vars

\* Two threads in log() on a new file, and a reader.
ConcInit == LogInit /\ store = <<>>

ConcNext ==
    \/ \E t \in Threads, c \in LogCalls : LogOpen(t, c)
    \/ \E t \in Threads, part \in {"whole", "head", "head_cut"} :
          LogFlush(t, part)
    \/ \E t \in Threads : LogFlushRest(t)
    \/ \E limit \in {1, 2} : GetRecent(limit)

ConcSpec == ConcInit /\ [][ConcNext]_vars

\* What config_path may hold when a gate is constructed on it.
Documents ==
    { Absent,
      Unparseable,
      YNull,
      YList(<<S_ab>>),
      YStr(S_x),
      YMap("model" :> YStr(S_x)),
      YMap(("friday" :> YNull) @@ ("model" :> YStr(S_x))),
      YMap("friday" :> YList(<<S_ab>>)),
      YMap("friday" :> YMap(("permissions" :> YNull)
                            @@ ("name" :> YStr(S_x)))),
      YMap("friday" :> YMap("permissions" :>
                YMap(("auto_approve" :> YNull)
                     @@ ("blacklist" :> YList(<<S_ab>>))))),
      YMap("friday" :> YMap("permissions" :>
                YMap(("auto_approve" :> YList(<<S_c>>))
                     @@ ("blacklist" :> YNull)))),
      YMap(("friday" :>
                YMap(("permissions" :>
                        YMap(("default_level" :> YStr(S_x))
                             @@ ("auto_approve" :> YList(<<S_c>>))
                             @@ ("blacklist" :> YList(<<S_ab>>))))
                     @@ ("name" :> YStr(S_x))))
           @@ ("model" :> YStr(S_x))),
      YMap(("permissions" :>
                YMap(("auto_approve" :> YList(<<S_ab>>))
                     @@ ("blacklist" :> YList(<<S_c>>))))
           @@ ("model" :> YStr(S_x))),
      YMap("permissions" :> YList(<<S_ab>>)) }

\* __init__ up to its return or to the exception that leaves it:
\* _load_config, then _apply_config.
Build(file) == ApplyConfig(LoadConfig(file))

\* No gate object: the constructor raised.
Unbuilt == "unbuilt"

\* PermissionManager.__init__ on the document at config_path, on a fresh
\* AuditLogger.
ConfInit ==
    /\ config_file \in Documents
    /\ LET built == Build(config_file) IN
       IF built.raised = "none"
       THEN /\ auto_approve = built.value.auto_approve
            /\ blacklist = built.value.blacklist
            /\ whitelist = ConfigWhitelist(built.value.auto_approve)
            /\ pc = "idle"
            /\ ret = [op |-> "__init__", outcome |-> Returns(TRUE)]
       ELSE /\ auto_approve = NoList
            /\ blacklist = NoList
            /\ whitelist = ConfigWhitelist(<<>>)
            /\ pc = Unbuilt
            /\ ret = [op |-> "__init__", outcome |-> built]
    /\ approval_callback = "None"
    /\ store = <<>>
    /\ backups = [t \in 0..MaxClock |-> NoFile]
    /\ now = 0
    /\ call = NoCall
    /\ asked = NotAsked
    /\ mark = 0
    /\ learned = {}
    /\ ops = 0
    /\ writers = [t \in Threads |-> Idle]
    /\ disk = {}

\* The process starts again: a new PermissionManager on the document that
\* config_path holds now, on the same log.
Construct ==
    /\ pc \in {"idle", Unbuilt}
    /\ ops < MaxOps
    /\ ops' = ops + 1
    /\ LET built == Build(config_file) IN
       IF built.raised = "none"
       THEN /\ auto_approve' = built.value.auto_approve
            /\ blacklist' = built.value.blacklist
            /\ whitelist' = ConfigWhitelist(built.value.auto_approve)
            /\ pc' = "idle"
            /\ ret' = [op |-> "__init__", outcome |-> Returns(TRUE)]
       ELSE /\ auto_approve' = NoList
            /\ blacklist' = NoList
            /\ whitelist' = ConfigWhitelist(<<>>)
            /\ pc' = Unbuilt
            /\ ret' = [op |-> "__init__", outcome |-> built]
    /\ approval_callback' = "None"
    /\ learned' = {}
    /\ UNCHANGED <<store, backups, now, call, asked, mark, writers,
                   config_file, disk>>

\* save_config
SaveConfig ==
    /\ pc = "idle"
    /\ ops < MaxOps
    /\ ops' = ops + 1
    /\ config_file' = SavedConfig(config_file, auto_approve, blacklist)
    /\ ret' = [op |-> "save_config"]
    /\ UNCHANGED <<policy, store, backups, now, pc, call, asked, mark,
                   learned, writers, disk>>

ConfNext ==
    \/ Construct
    \/ SaveConfig
    \/ \E pattern \in Patterns : blacklist # NoList /\ AddToBlacklist(pattern)
    \/ \E pattern \in Patterns :
          blacklist # NoList /\ RemoveFromBlacklist(pattern)

\* The gate and its configuration document: construction, the deny-list
\* calls (on a gate whose deny-list is a list) and save_config.
ConfSpec == ConfInit /\ [][ConfNext]_vars

\* The metadata dicts handed to log_action: none, strings, None, a tuple, a
\* list, an int key.
Metadatas ==
    { EmptyDict,
      {<<"preview", S_x>>},
      {<<"action_type", S_ab>>, <<"target", None>>},
      {<<"paths", PyTuple(S_ab)>>},
      {<<"paths", PyList(S_ab)>>},
      {<<IntKey1, S_x>>} }

\* log_action calls with every user_approved, with and without a result,
\* with each metadata.
TripCalls ==
    { [type |-> WRITE, description |-> S_x, level |-> SAFE_WRITE,
       approved |-> a, status |-> "executed", result |-> r, metadata |-> m] :
          a \in {"True", "False", "None"}, r \in {None, S_x},
          m \in Metadatas }

\* AuditEntry.create for a call, at the time of the clock.
EntryOf(c) ==
    AuditEntry(now, c.type, c.description, c.level, c.approved, c.status,
               c.result, c.metadata)

\* log_action: the entry is created, appended, and returned.
LogEntry(c) ==
    /\ pc = "idle"
    /\ StoredLines < MaxLines
    /\ store' = LogWrite(store, EntryOf(c))
    /\ ret' = [op |-> "log_action", value |-> EntryOf(c)]
    /\ UNCHANGED <<policy, backups, now, pc, call, asked, mark, learned, ops,
                   writers, config_file, disk>>

TripInit == LogInit /\ store = <<>>

TripNext ==
    \/ \E c \in TripCalls : LogEntry(c)
    \/ \E limit \in {1, 2} : GetRecent(limit)

\* The logger written to and read back: log_action with every kind of
\* field value, and get_recent.
TripSpec == TripInit /\ [][TripNext]_vars

\* max(src_level, dst_level, key=lambda x: x.value): the first argument
\* unless the second has the greater value.  (A level of the model is the
\* value of the enum member.)
MaxLevel_First(src_level, dst_level) == src_level

MaxLevel(src_level, dst_level) ==
    IF dst_level > src_level THEN dst_level ELSE src_level

\* a.value < b.value on two members of PermissionLevel.
ValueLess(a, b) == a < b

\* The level move_file requires, for the levels of its two paths.
\* (_get_write_level gives SAFE_WRITE or SYSTEM_WRITE; max is applied here
\* to every pair of levels.)
MoveLevel(src_level, dst_level) ==
    /\ pc = "idle"
    /\ ops < MaxOps
    /\ ops' = ops + 1
    /\ ret' = [op |-> "move_level", src_level |-> src_level,
               dst_level |-> dst_level,
               level |-> MaxLevel(src_level, dst_level)]
    /\ UNCHANGED <<policy, store, backups, now, pc, call, asked, mark,
                   learned, writers, config_file, disk>>

\* The comparison of two levels' values.
CompareLevels(a, b) ==
    /\ pc = "idle"
    /\ ops < MaxOps
    /\ ops' = ops + 1
    /\ ret' = [op |-> "value_less", left |-> a, right |-> b,
               less |-> ValueLess(a, b)]
    /\ UNCHANGED <<policy, store, backups, now, pc, call, asked, mark,
                   learned, writers, config_file, disk>>

LevelInit == LogInit /\ store = <<>>

LevelNext ==
    \/ \E src_level \in PermissionLevel, dst_level \in PermissionLevel :
          MoveLevel(src_level, dst_level)
    \/ \E a \in PermissionLevel, b \in PermissionLevel : CompareLevels(a, b)

\* The permission levels: value comparisons and the level of a move, on
\* every pair of levels.
LevelSpec == LevelInit /\ [][LevelNext]_vars

\* A gate on which set_approval_callback has been called after
\* construction.
CallbackInit ==
    /\ \E config \in Configs :
          /\ config_file = Document(config)
          /\ auto_approve = config.auto_approve
          /\ blacklist = config.blacklist
          /\ whitelist = ConfigWhitelist(config.auto_approve)
    /\ approval_callback = "callable"
    /\ store = <<>>
    /\ backups = [t \in 0..MaxClock |-> NoFile]
    /\ now = 0
    /\ pc = "idle"
    /\ call = NoCall
    /\ ret = [op |-> "set_approval_callback"]
    /\ asked = NotAsked
    /\ mark = 0
    /\ learned = {}
    /\ ops = 0
    /\ writers = [t \in Threads |-> Idle]
    /\ disk = {}

CallbackNext ==
    \/ \E action \in ActionRequest, dry_run \in BOOLEAN :
          CheckPermission(action, dry_run)
    \/ \E approved \in BOOLEAN : CallbackReturns(approved)
    \/ CallbackRaises

\* The gate with an approval callback: checks, and the callback answering
\* or raising.
CallbackSpec == CallbackInit /\ [][CallbackNext]_vars

\* ------------------------------------------------------------ FileOperator
\* str(Path.home()) and the paths the model works on: one under the home
\* directory, one outside. (Absolute paths without links or dots:
\* Path.resolve() leaves them as they are.)
HomeDir == <<"/", "h">>
P_home == <<"/", "h", "/", "x">>
P_etc == <<"/", "e", "/", "y">>
Paths == {P_home, P_etc}

\* FileOperator.safe_paths: the home directory and directories in it.
SafePaths == {HomeDir, HomeDir \o <<"/", "D">>}

\* _is_safe_path
IsSafePath(path) == \E safe_path \in SafePaths : StartsWith(path, safe_path)

\* _get_write_level
GetWriteLevel(path) == IF IsSafePath(path) THEN SAFE_WRITE ELSE SYSTEM_WRITE

\* The four methods, by the action type of their requests.
T_create == <<"c", "r", "e", "a", "t", "e", "_", "f", "i", "l", "e">>
T_delete == <<"d", "e", "l", "e", "t", "e", "_", "f", "i", "l", "e">>
T_copy == <<"c", "o", "p", "y", "_", "f", "i", "l", "e">>
T_move == <<"m", "o", "v", "e", "_", "f", "i", "l", "e">>

S_to == <<" ", "t", "o", " ">>

\* An int in a metadata dict.
PyInt(n) == <<"<int>", n>>

\* Every file of the model holds one byte, and create_file writes one.
FileSize == 1

\* The calls of create_file(path, "x", dry_run), delete_file(path, dry_run),
\* copy_file(src, dst, dry_run) and move_file(src, dst, dry_run); src is
\* None for the first two, dst is their path.
FileCalls ==
    { [method |-> m, src |-> None, dst |-> path, dry_run |-> d] :
          m \in {T_create, T_delete}, path \in Paths, d \in BOOLEAN }
    \cup
    { [method |-> m, src |-> pair[1], dst |-> pair[2], dry_run |-> d] :
          m \in {T_copy, T_move},
          pair \in {<<P_home, P_etc>>, <<P_etc, P_home>>}, d \in BOOLEAN }

\* The level the method requires.
FileLevel(c) ==
    CASE c.method = T_create -> GetWriteLevel(c.dst)
      [] c.method = T_delete -> SYSTEM_WRITE
      [] c.method = T_copy -> GetWriteLevel(c.dst)
      [] c.method = T_move ->
            MaxLevel(GetWriteLevel(c.src), GetWriteLevel(c.dst))

\* The ActionRequest the method builds.
FileRequest(c) ==
    [action_type |-> c.method,
     description |->
        CASE c.method = T_create ->
                <<"C", "r", "e", "a", "t", "e", " ", "f", "i", "l", "e", ":",
                  " ">> \o c.dst
          [] c.method = T_delete ->
                <<"D", "e", "l", "e", "t", "e", " ", "f", "i", "l", "e", ":",
                  " ">> \o c.dst
          [] c.method = T_copy ->
                <<"C", "o", "p", "y", " ">> \o c.src \o S_to \o c.dst
          [] c.method = T_move ->
                <<"M", "o", "v", "e", " ">> \o c.src \o S_to \o c.dst,
     target |-> c.dst,
     required_level |-> FileLevel(c)]

\* "path" or "src to dst", as the methods' log texts name their files.
FileNames(c) == IF c.src = None THEN c.dst ELSE c.src \o S_to \o c.dst

\* The verb of the method in its log texts, capitalised or not.
Verb(c, capital) ==
    CASE c.method = T_create -> IF capital THEN "Create " ELSE "create "
      [] c.method = T_delete -> IF capital THEN "Delete " ELSE "delete "
      [] c.method = T_copy -> IF capital THEN "Copy " ELSE "copy "
      [] c.method = T_move -> IF capital THEN "Move " ELSE "move "

\* The exception the method raises before it does anything, or None: the
\* file to create or the destination is there already, the file to delete
\* or the source is not.
Precondition(files, c) ==
    CASE c.method = T_create ->
            IF c.dst \in files THEN "FileExistsError" ELSE "None"
      [] c.method = T_delete ->
            IF c.dst \notin files THEN "FileNotFoundError" ELSE "None"
      [] OTHER ->
            IF c.src \notin files THEN "FileNotFoundError"
            ELSE IF c.dst \in files THEN "FileExistsError"
            ELSE "None"

\* The metadata of the method's DRY-RUN record.
DryRunMetadata(c) ==
    CASE c.method = T_create ->
            {<<"content_length", PyInt(FileSize)>>, <<"path", c.dst>>}
      [] c.method = T_delete -> {<<"file_size", PyInt(FileSize)>>}
      [] OTHER ->
            {<<"source", c.src>>, <<"destination", c.dst>>,
             <<"size", PyInt(FileSize)>>}

\* Mutant: the method does not look at its dry_run argument.
MustPreview_Never(dry_run) == FALSE

\* `if dry_run:` of the four methods.
MustPreview(dry_run) == dry_run

\* What write_text, unlink, shutil.copy2 and shutil.move do to the files.
Effect(files, c) ==
    CASE c.method = T_create -> files \cup {c.dst}
      [] c.method = T_delete -> files \ {c.dst}
      [] c.method = T_copy -> files \cup {c.dst}
      [] c.method = T_move -> (files \ {c.src}) \cup {c.dst}

\* The past-tense text and result of the method's EXECUTED record.
DoneText(c) ==
    CASE c.method = T_create -> <<"Created file: ">>
      [] c.method = T_delete -> <<"Deleted file: ">>
      [] c.method = T_copy -> <<"Copied ">>
      [] c.method = T_move -> <<"Moved ">>

DoneResult(c) ==
    CASE c.method = T_create -> <<"File created (1 bytes)">>
      [] c.method = T_delete -> <<"File deleted (1 bytes)">>
      [] c.method = T_copy -> <<"File copied (1 bytes)">>
      [] c.method = T_move -> <<"File moved (1 bytes)">>

\* A FileOperator method up to the return of check_permission, or to the
\* point where check_permission waits at the prompt.
FileOpBegins(c) ==
    /\ ret.op # "check"
    /\ CheckPermission(FileRequest(c), c.dry_run)

\* The rest of the method, once check_permission has returned `result`.
\* `fails` says that the operating system refuses the effect.
FileOpEnds(c, fails) ==
    LET result == ret.result
        level == FileLevel(c)
        error == Precondition(disk, c) IN
    /\ pc = "idle"
    /\ ret.op = "check"
    /\ call = [action |-> FileRequest(c), dry_run |-> c.dry_run]
    /\ IF ~result.success THEN
            /\ store' = LogAction(store, WRITE,
                    <<"Permission denied: ", Verb(c, TRUE)>> \o FileNames(c),
                    level, "False", "denied", None, EmptyDict)
            /\ ret' = [op |-> "file", method |-> c.method,
                       outcome |-> Returns(FALSE)]
            /\ disk' = disk
       ELSE IF error # "None" THEN
            /\ ret' = [op |-> "file", method |-> c.method,
                       outcome |-> Raises(error)]
            /\ UNCHANGED <<store, disk>>
       ELSE IF MustPreview(c.dry_run) THEN
            /\ store' = LogAction(store, WRITE,
                    <<"DRY-RUN: Would ", Verb(c, FALSE)>> \o FileNames(c)
                        \o (IF c.method = T_create THEN <<>>
                            ELSE <<" (1 bytes)">>),
                    level, "None", "dry_run", None, DryRunMetadata(c))
            /\ ret' = [op |-> "file", method |-> c.method,
                       outcome |-> Returns(TRUE)]
            /\ disk' = disk
       ELSE IF fails THEN
            /\ store' = LogAction(store, WRITE,
                    <<"Failed to ", Verb(c, FALSE)>> \o FileNames(c),
                    level, "None", "denied", <<"Error: ">>, EmptyDict)
            /\ ret' = [op |-> "file", method |-> c.method,
                       outcome |-> Raises("IOError")]
            /\ disk' = disk
       ELSE
            /\ store' = LogAction(store, WRITE, DoneText(c) \o FileNames(c),
                                  level, "None", "executed", DoneResult(c),
                                  EmptyDict)
            /\ ret' = [op |-> "file", method |-> c.method,
                       outcome |-> Returns(TRUE)]
            /\ disk' = Effect(disk, c)
    /\ UNCHANGED <<policy, backups, now, pc, call, asked, mark, learned, ops,
                   writers, config_file>>

\* The policies FileOperator's gate is built with.
FileConfigs ==
    { [auto_approve |-> <<>>, blacklist |-> <<>>],
      [auto_approve |-> <<<<"c", "*">>>>, blacklist |-> <<>>],
      [auto_approve |-> <<<<"c", "*">>>>, blacklist |-> <<<<"/", "E">>>>] }

\* FileOperator(PermissionManager(), AuditLogger()) on a fresh log, no
\* callback registered; a file at the path under the home directory.
FileInit ==
    /\ \E config \in FileConfigs :
          /\ config_file = Document(config)
          /\ auto_approve = config.auto_approve
          /\ blacklist = config.blacklist
          /\ whitelist = ConfigWhitelist(config.auto_approve)
    /\ approval_callback = "None"
    /\ store = <<>>
    /\ backups = [t \in 0..MaxClock |-> NoFile]
    /\ now = 0
    /\ pc = "idle"
    /\ call = NoCall
    /\ ret = NoReturn
    /\ asked = NotAsked
    /\ mark = 0
    /\ learned = {}
    /\ ops = 0
    /\ writers = [t \in Threads |-> Idle]
    /\ disk = {P_home}

FileNext ==
    \/ \E c \in FileCalls : FileOpBegins(c)
    \/ \E typed \in {<<"y">>, <<"n">>, <<"n", "e", "v", "e", "r">>} :
          CliApproval(typed)
    \/ \E c \in FileCalls, fails \in BOOLEAN : FileOpEnds(c, fails)

\* FileOperator on the gate: each method asks the gate, which answers at
\* once or after the prompt, and then goes on.
FileSpec == FileInit /\ [][FileNext]_vars

\* --------------------------------------------------- the friday commands
\* `friday permission blacklist PATTERN`: a gate is built from the document
\* at config_path, add_to_blacklist is called on it, then save_config. The
\* command ends with the exception when the construction raises, or when
\* the deny-list is None (`pattern not in None`).
PermissionBlacklist(pattern) ==
    LET built == Build(config_file) IN
    /\ pc \in {"idle", Unbuilt}
    /\ ops < MaxOps
    /\ ops' = ops + 1
    /\ approval_callback' = "None"
    /\ learned' = {}
    /\ IF built.raised # "none"
       THEN /\ auto_approve' = NoList
            /\ blacklist' = NoList
            /\ whitelist' = ConfigWhitelist(<<>>)
            /\ pc' = Unbuilt
            /\ ret' = [op |-> "permission_blacklist", pattern |-> pattern,
                       outcome |-> built]
            /\ UNCHANGED <<store, config_file>>
       ELSE /\ auto_approve' = built.value.auto_approve
            /\ whitelist' = ConfigWhitelist(built.value.auto_approve)
            /\ pc' = "idle"
            /\ IF built.value.blacklist = NoList
               THEN /\ blacklist' = NoList
                    /\ ret' = [op |-> "permission_blacklist",
                               pattern |-> pattern,
                               outcome |-> Raises("TypeError")]
                    /\ UNCHANGED <<store, config_file>>
               ELSE /\ blacklist' = BlacklistAdd(built.value.blacklist, pattern)
                    /\ store' = BlacklistAddLog(built.value.blacklist, store,
                                                pattern)
                    /\ config_file' = SavedConfig(config_file,
                                                  auto_approve', blacklist')
                    /\ ret' = [op |-> "permission_blacklist",
                               pattern |-> pattern,
                               outcome |-> Returns(TRUE)]
    /\ UNCHANGED <<backups, now, call, asked, mark, writers, disk>>

\* `friday permission whitelist PATTERN`: a gate is built, then
\* add_to_whitelist(pattern, SAFE_WRITE) and save_config.
PermissionWhitelist(pattern) ==
    LET built == Build(config_file) IN
    /\ pc \in {"idle", Unbuilt}
    /\ ops < MaxOps
    /\ ops' = ops + 1
    /\ approval_callback' = "None"
    /\ learned' = {}
    /\ IF built.raised # "none"
       THEN /\ auto_approve' = NoList
            /\ blacklist' = NoList
            /\ whitelist' = ConfigWhitelist(<<>>)
            /\ pc' = Unbuilt
            /\ ret' = [op |-> "permission_whitelist", pattern |-> pattern,
                       outcome |-> built]
            /\ UNCHANGED <<store, config_file>>
       ELSE /\ auto_approve' = built.value.auto_approve
            /\ blacklist' = built.value.blacklist
            /\ whitelist' = DictSet(ConfigWhitelist(built.value.auto_approve),
                                    pattern, SAFE_WRITE)
            /\ pc' = "idle"
            /\ store' = LogAction(store, PERMISSION,
                                  <<"Added to whitelist: ">> \o pattern,
                                  SAFE_WRITE, "None", "executed", None,
                                  EmptyDict)
            /\ config_file' = SavedConfig(config_file, auto_approve',
                                          blacklist')
            /\ ret' = [op |-> "permission_whitelist", pattern |-> pattern,
                       outcome |-> Returns(TRUE)]
    /\ UNCHANGED <<backups, now, call, asked, mark, writers, disk>>

CliNext ==
    \/ \E pattern \in Patterns : PermissionBlacklist(pattern)
    \/ \E pattern \in Patterns : PermissionWhitelist(pattern)
    \/ Construct

\* The friday commands that change the policy, each in a process of its
\* own on the one configuration document, and a later process building its
\* gate.
CliSpec == ConfInit /\ [][CliNext]_vars

\* The approval response arrives: the callback returns or raises, or
\* input() returns (or ends with EOFError or KeyboardInterrupt).
Answer ==
    \/ \E approved \in BOOLEAN : CallbackReturns(approved)
    \/ CallbackRaises
    \/ \E typed \in Inputs : CliApproval(typed)

\* The calls of a caller that only checks, after installing a callback or
\* not.
CheckNext ==
    \/ \E action \in ActionRequest, dry_run \in BOOLEAN :
          CheckPermission(action, dry_run)
    \/ \E callback \in {"callable"} : SetApprovalCallback(callback)
    \/ Answer

\* The gate under checks, every approval request being answered in the end.
LiveSpec == Init /\ [][CheckNext]_vars /\ WF_vars(Answer)

\* ================================================================== claims
\* A step in which check_permission is called.
CheckBegins == pc = "idle" /\ ops' = ops + 1 /\ ret'.op \in {"check", "running"}

\* The entries in `lines` from position m + 1 on.
Appended(lines, m) == [i \in 1..(Len(lines) - m) |-> FromJson(lines[m + i])]

\* The action type glob-matches a pattern of the deny-list.
GlobDenied(action) ==
    \E i \in 1..Len(blacklist) : Fnmatch(action.action_type, blacklist[i])

\* The action type glob-matches a pattern of the auto-approve list.
AllowMatched(action) ==
    \E i \in 1..Len(auto_approve) : Fnmatch(action.action_type, auto_approve[i])

\* The deny check as the specification states it: some deny pattern (a)
\* glob-matches the action type, or lower-cased is a substring (b) of the
\* lower-cased target, when there is one, or (c) of the lower-cased
\* description.
DenyReference(action) ==
    \E i \in 1..Len(blacklist) :
        \/ Fnmatch(action.action_type, blacklist[i])
        \/ /\ action.target # None
           /\ IsSubstring(Lower(blacklist[i]), Lower(action.target))
        \/ IsSubstring(Lower(blacklist[i]), Lower(action.description))

\* The last call was a check that returned this status.
CheckReturned(status) == ret.op = "check" /\ ret.result.status = status

\* C1: a request whose action type glob-matches a deny pattern is refused
\* with status DENIED at every level, for every dry_run value, with or
\* without a callback, and neither the callback nor the prompt is asked.
C1_DenyListDenies ==
    [][CheckBegins /\ GlobDenied(call'.action) =>
          /\ ret'.op = "check"
          /\ ret'.result.success = FALSE
          /\ ret'.result.status = "DENIED"
          /\ asked' = NotAsked
          /\ pc' = "idle"]_vars

C1_Witness ==
    /\ CheckReturned("DENIED")
    /\ GlobDenied(call.action)
    /\ call.action.required_level = ADMIN
    /\ call.dry_run
    /\ approval_callback = "callable"

\* C2: a request matching a pattern that stands in both lists is refused
\* and its check appends no approved record, whatever policy mutations came
\* before.
C2_DenyPrecedence ==
    [][(/\ CheckBegins
        /\ \E i \in 1..Len(blacklist), j \in 1..Len(auto_approve) :
              /\ blacklist[i] = auto_approve[j]
              /\ Fnmatch(call'.action.action_type, blacklist[i])) =>
          /\ ret'.op = "check"
          /\ ret'.result.success = FALSE
          /\ ret'.result.status = "DENIED"
          /\ \A k \in 1..(Len(store') - mark') :
                Appended(store', mark')[k].status # "approved"]_vars

C2_Witness ==
    /\ CheckReturned("DENIED")
    /\ \E i \in 1..Len(blacklist), j \in 1..Len(auto_approve) :
          /\ blacklist[i] = auto_approve[j]
          /\ Fnmatch(call.action.action_type, blacklist[i])
    /\ mark = 1
    /\ FromJson(store[1]).action_description = <<"Added to blacklist: ">> \o S_ab

\* C3: a request matching an auto-approve pattern that the deny check does
\* not match is approved at every level and for every dry_run value, with an
\* approved record and without asking the callback or the prompt.
C3_AllowListApproves ==
    [][CheckBegins /\ AllowMatched(call'.action)
                   /\ ~DenyReference(call'.action) =>
          /\ ret'.op = "check"
          /\ ret'.result.success = TRUE
          /\ ret'.result.status = "APPROVED"
          /\ \E k \in 1..(Len(store') - mark') :
                Appended(store', mark')[k].status = "approved"
          /\ asked' = NotAsked
          /\ pc' = "idle"]_vars

C3_Witness ==
    /\ CheckReturned("APPROVED")
    /\ AllowMatched(call.action)
    /\ ~DenyReference(call.action)
    /\ call.action.required_level = ADMIN
    /\ ~call.dry_run
    /\ approval_callback = "callable"

\* The entry is the pending record check_permission writes for the action.
IsPendingFor(e, action) ==
    /\ e.status = "pending"
    /\ e.action_description = <<"Permission check: ">> \o action.description
    /\ e.permission_level = action.required_level
    /\ <<"action_type", action.action_type>> \in e.metadata

\* C4: while a check waits for an approval response the trail already ends
\* with that check's pending record, and the records of a check that has
\* returned (or was left by an exception) begin with its pending record, so
\* every verdict record comes after it.
C4_AuditFirst ==
    /\ pc # "idle" =>
          /\ Len(store) = mark + 1
          /\ IsPendingFor(FromJson(store[mark + 1]), call.action)
    /\ ret.op \in {"check", "check_raised"} =>
          /\ Len(store) >= mark + 1
          /\ IsPendingFor(FromJson(store[mark + 1]), call.action)
          /\ \A k \in (mark + 2)..Len(store) :
                FromJson(store[k]).status # "pending"

C4_Witness ==
    /\ pc = "cli"
    /\ Len(store) = mark + 1
    /\ IsPendingFor(FromJson(store[mark + 1]), call.action)
    /\ mark > 0

Never == <<"n", "e", "v", "e", "r">>

\* A step in which the prompt is answered `never`.
NeverAnswered ==
    \E typed \in Inputs : Response(typed) = Never /\ CliApproval(typed)

\* C5: a `never` answer returns BLACKLISTED, puts the action type on the
\* deny-list and leaves the auto-approve list alone; and every later check
\* of an action type learned this way (and not removed since) is refused
\* with status DENIED.
C5_NeverBlocksLater ==
    [][/\ NeverAnswered =>
            /\ ret'.result.success = FALSE
            /\ ret'.result.status = "BLACKLISTED"
            /\ \E i \in 1..Len(blacklist') :
                    blacklist'[i] = call.action.action_type
            /\ auto_approve' = auto_approve
       /\ CheckBegins /\ call'.action.action_type \in learned =>
            /\ ret'.op = "check"
            /\ ret'.result.success = FALSE
            /\ ret'.result.status = "DENIED"]_vars

\* C6: a check at level SUGGEST, or with dry_run, never asks the callback or
\* the prompt, and returns DRY_RUN when neither list nor the READ rule
\* stops it first.
C6_NoApprovalForDryRun ==
    [][/\ pc' # "idle" =>
            ~call'.dry_run /\ call'.action.required_level # SUGGEST
       /\ (/\ CheckBegins
           /\ call'.action.required_level = SUGGEST \/ call'.dry_run) =>
            /\ ret'.op = "check"
            /\ asked' = NotAsked
            /\ (/\ ~DenyReference(call'.action)
                /\ ~AllowMatched(call'.action)
                /\ call'.action.required_level # READ) =>
                    /\ ret'.result.success = TRUE
                    /\ ret'.result.status = "DRY_RUN"]_vars

C6_Witness ==
    /\ CheckReturned("DRY_RUN")
    /\ call.dry_run
    /\ call.action.required_level = ADMIN
    /\ approval_callback = "callable"
    /\ asked = NotAsked

\* C7 as stated: a READ request whose action type glob-matches no deny
\* pattern and no auto-approve pattern is approved without any approval
\* request.
C7_ReadAbsentFromLists ==
    [][(/\ CheckBegins
        /\ call'.action.required_level = READ
        /\ ~GlobDenied(call'.action)
        /\ ~AllowMatched(call'.action)) =>
          /\ ret'.op = "check"
          /\ ret'.result.success = TRUE
          /\ ret'.result.status = "APPROVED"
          /\ asked' = NotAsked]_vars

\* C7 as amended: a READ request that the deny check does not match (by
\* action type, target or description) and whose action type matches no
\* auto-approve pattern is approved without any approval request, for every
\* dry_run value.
C7_ReadNotBlocked ==
    [][(/\ CheckBegins
        /\ call'.action.required_level = READ
        /\ ~DenyReference(call'.action)
        /\ ~AllowMatched(call'.action)) =>
          /\ ret'.op = "check"
          /\ ret'.result.success = TRUE
          /\ ret'.result.status = "APPROVED"
          /\ asked' = NotAsked]_vars

C7_Witness ==
    /\ CheckReturned("APPROVED")
    /\ call.action.required_level = READ
    /\ ~DenyReference(call.action)
    /\ ~AllowMatched(call.action)
    /\ blacklist # <<>>
    /\ mark > 0

\* The deny check of the code and the reference agree on every request (the
\* level of a request plays no part in either). Both read the deny-list
\* alone, so C8 looks at the initial deny-list and at each one a step makes.
DenyCheckAgrees ==
    \A subject \in Subjects : IsBlacklisted(subject) <=> DenyReference(subject)

\* C8: the deny check of the code agrees with the reference (a) or (b) or
\* (c) for every request and every deny-list reached, and a check the
\* reference matches appends its pending record and one denied record with
\* result "Blacklisted action", then returns: no approved record, no
\* approval request, no change of the deny-list.
C8_DenyCheckReference ==
    [][/\ ops = 0 => DenyCheckAgrees
       /\ blacklist' # blacklist => DenyCheckAgrees'
       /\ CheckBegins /\ DenyReference(call'.action) =>
            /\ Len(store') = Len(store) + 2
            /\ FromJson(store'[Len(store')]).status = "denied"
            /\ FromJson(store'[Len(store')]).result = <<"Blacklisted action">>
            /\ FromJson(store'[Len(store') - 1]).status = "pending"
            /\ ret'.op = "check"
            /\ ret'.result.success = FALSE
            /\ asked' = NotAsked
            /\ pc' = "idle"
            /\ blacklist' = blacklist]_vars

C8_Witness ==
    /\ CheckReturned("DENIED")
    /\ ~GlobDenied(call.action)
    /\ DenyReference(call.action)
    /\ FromJson(store[Len(store)]).result = <<"Blacklisted action">>

\* C9: a check that returns a failure has appended, after its pending
\* record, a record with status denied.
C9_FailureLogged ==
    ret.op = "check" /\ ~ret.result.success =>
        \E k \in (mark + 2)..Len(store) : FromJson(store[k]).status = "denied"

\* s is a prefix of t
IsPrefix(s, t) == Len(s) <= Len(t) /\ SubSeq(t, 1, Len(s)) = s

\* C10: every step other than a confirmed clear leaves the earlier content
\* of the live store as a prefix of its new content.
C10_AppendOnly ==
    [][\/ ops' = ops + 1 /\ ret'.op = "clear" /\ ret'.value = TRUE
       \/ IsPrefix(store, store')]_vars

C10_Witness ==
    /\ ret.op = "check"
    /\ mark > 0
    /\ Len(store) >= mark + 2
    /\ FromJson(store[1]).status = "executed"

\* ----------------------------------------------------------- logger claims
\* How many lines of a file are the record e.
Occurrences(lines, e) ==
    IF lines = NoFile THEN 0
    ELSE Cardinality({i \in 1..Len(lines) : lines[i] = ToJson(e)})

\* How many times the record e stands in the live store and the backups.
Copies(live, files, e) ==
    LET RECURSIVE Sum(_)
        Sum(names) ==
            IF names = {} THEN 0
            ELSE LET t == CHOOSE x \in names : TRUE
                 IN  Occurrences(files[t], e) + Sum(names \ {t})
    IN  Occurrences(live, e) + Sum(DOMAIN files)

\* The records that stand in the live store or in a backup.
Held(live, files) ==
    {FromJson(l) : l \in {x \in {live[i] : i \in 1..Len(live)} :
                             FromJsonRaises(x) = "none"}}
    \cup UNION {{FromJson(l) : l \in {x \in {files[t][i] :
                                              i \in 1..Len(files[t])} :
                                         files[t] # NoFile
                                         /\ FromJsonRaises(x) = "none"}} :
                t \in DOMAIN files}

\* A step that is the call clear(confirm).
ClearCalled(confirm) ==
    ops' = ops + 1 /\ ret'.op = "clear" /\ ret'.confirm = confirm

\* C11: no step takes a record away: every record that stands in the live
\* store or in a backup stands there, as many times, after the step.
C11_ClearKeepsData ==
    [][\A e \in Held(store, backups) :
           Copies(store', backups', e) >= Copies(store, backups, e)]_vars

\* C12: clear(true) returns true, leaves under the backup name of the
\* current second exactly the lines the live store held, and leaves the live
\* store empty, so that recent(n) is empty for every n.
C12_ClearMovesToBackup ==
    [][ClearCalled(TRUE) =>
          /\ ret'.value = TRUE
          /\ backups'[now] = store
          /\ \A t \in DOMAIN backups : t # now => backups'[t] = backups[t]
          /\ store' = <<>>
          /\ \A n \in 0..(MaxLines + 1) :
                Recent(store', n) = Returns(<<>>)]_vars

C12_Witness ==
    /\ ret.op = "clear" /\ ret.confirm /\ ret.value
    /\ store = <<>>
    /\ backups[now] # NoFile
    /\ Len(backups[now]) = MaxLines
    /\ \A i \in 1..Len(backups[now]) : FromJsonRaises(backups[now][i]) = "none"

\* C13: clear(false) returns false and changes neither the live store nor
\* any backup.
C13_UnconfirmedClearIsNoOp ==
    [][ClearCalled(FALSE) =>
          ret'.value = FALSE /\ store' = store /\ backups' = backups]_vars

C13_Witness ==
    /\ ret.op = "clear" /\ ~ret.confirm /\ ~ret.value
    /\ store # <<>>
    /\ \E t \in DOMAIN backups : backups[t] # NoFile /\ backups[t] # <<>>

\* The entries of the lines of a file that are records, in file order.
ValidEntries(lines) ==
    LET valid == SelectSeq(lines, LAMBDA l : FromJsonRaises(l) = "none")
    IN  [i \in 1..Len(valid) |-> FromJson(valid[i])]

\* The last k items of a sequence, the last one first.
NewestFirst(s, k) == [i \in 1..k |-> s[Len(s) + 1 - i]]

\* `entries` are records of the file, the most recently appended first,
\* none left out between two of them.
IsNewestFirst(entries, lines) ==
    /\ Len(entries) <= Len(ValidEntries(lines))
    /\ entries = NewestFirst(ValidEntries(lines), Len(entries))

\* C14: whenever recent(n) returns, it returns at most n entries, the most
\* recently appended first.
C14_RecentAtMostLimit ==
    (ret.op = "get_recent" /\ ret.outcome.raised = "none") =>
        /\ Len(ret.outcome.value) <= ret.limit
        /\ IsNewestFirst(ret.outcome.value, store)

\* C15: on a store that holds m appended records and nothing else,
\* recent(n) with 1 <= n <= m returns exactly the last n of them, the last
\* one first.
C15_RecentLastN ==
    (/\ ret.op = "get_recent"
     /\ \A i \in 1..Len(store) : FromJsonRaises(store[i]) = "none"
     /\ 1 <= ret.limit /\ ret.limit <= Len(store)) =>
        /\ ret.outcome.raised = "none"
        /\ Len(ret.outcome.value) = ret.limit
        /\ \A i \in 1..ret.limit :
              ret.outcome.value[i] = FromJson(store[Len(store) + 1 - i])

C15_Witness ==
    /\ ret.op = "get_recent" /\ ret.limit = 1
    /\ Len(store) = MaxLines
    /\ \A i \in 1..Len(store) : FromJsonRaises(store[i]) = "none"
    /\ store[Len(store)] # store[1]
    /\ ret.outcome = Returns(<<FromJson(store[Len(store)])>>)

\* C16: once no log() call is in progress, every line of the store is one
\* whole record; and a read made while calls are in progress raises nothing
\* and returns whole records only.
C16_AtomicAppends ==
    /\ (\A t \in Threads : writers[t] = Idle) =>
          \A i \in 1..Len(store) : FromJsonRaises(store[i]) = "none"
    /\ ret.op = "get_recent" =>
          /\ ret.outcome.raised = "none"
          /\ \A i \in 1..Len(ret.outcome.value) :
                \E j \in 1..Len(store) : store[j] = ToJson(ret.outcome.value[i])

\* The entries of a sequence that satisfy a test on one field, in order.
Matching(entries, field, values) ==
    SelectSeq(entries, LAMBDA e : e[field] \in values)

\* The smaller of two numbers.
Min(a, b) == IF a < b THEN a ELSE b

\* C17: a scan raises nothing whatever the lines of the store are (export:
\* for the formats it knows), and a scan that no limit cuts short returns
\* every record of the store that it selects.
C17_CorruptLinesSkipped ==
    LET valid == ValidEntries(store) IN
    /\ ret.op \in {"get_recent", "get_by_action_type", "get_denied_actions",
                   "get_by_date"} => ret.outcome.raised = "none"
    /\ (ret.op = "export" /\ ret.format \in {"json", "csv"}) =>
          /\ ret.outcome.raised = "none"
          /\ Len(ret.outcome.value) = Len(valid)
    /\ (ret.op = "get_recent" /\ ret.limit >= Len(store) /\ ret.limit > 0) =>
          ret.outcome.value = NewestFirst(valid, Len(valid))
    /\ ret.op = "get_by_date" =>
          Len(ret.outcome.value)
             = Len(SelectSeq(valid, LAMBDA e : DateOf(e.timestamp) = ret.date))

\* C18: byActionType, deniedActions and byDate return the entries they
\* select with the most recently appended first, and of more than `limit`
\* selected entries the `limit` most recently appended ones.
C18_ScansNewestFirst ==
    LET valid == ValidEntries(store)
        typed == Matching(valid, "action_type", {ret.type})
        denied == Matching(valid, "status", {"denied"})
        dated == SelectSeq(valid, LAMBDA e : DateOf(e.timestamp) = ret.date)
    IN
    /\ (ret.op = "get_by_action_type" /\ ret.outcome.raised = "none") =>
          ret.outcome.value = NewestFirst(typed, Min(ret.limit, Len(typed)))
    /\ (ret.op = "get_denied_actions" /\ ret.outcome.raised = "none") =>
          ret.outcome.value = NewestFirst(denied, Min(ret.limit, Len(denied)))
    /\ (ret.op = "get_by_date" /\ ret.outcome.raised = "none") =>
          ret.outcome.value = NewestFirst(dated, Len(dated))

\* ------------------------------------------------------ policy mutations
\* Whether x is an item of the list.
Contains(list, x) == \E i \in 1..Len(list) : list[i] = x

\* No item stands twice in the list.
NoDuplicates(list) ==
    \A i, j \in 1..Len(list) : list[i] = list[j] => i = j

\* A step that is the call `op` of the mutation API.
MutationCalled(op) == pc = "idle" /\ ops' = ops + 1 /\ ret'.op = op

\* C19: after addToBlacklist(p) the deny-list holds p; when it held p
\* before, the call changes neither the deny-list nor the audit trail; and
\* after every step of the gate no pattern stands twice in the deny-list.
C19_BlacklistIdempotent ==
    [][/\ MutationCalled("add_to_blacklist") =>
            /\ Contains(blacklist', ret'.pattern)
            /\ Contains(blacklist, ret'.pattern) =>
                    blacklist' = blacklist /\ store' = store
       /\ NoDuplicates(blacklist')]_vars

\* C20: a call of addToWhitelist, addToBlacklist or removeFromBlacklist that
\* changes the policy appends exactly one record, with status Executed and
\* permission_level Admin.
C20_MutationAudited ==
    [][(/\ \/ MutationCalled("add_to_whitelist")
           \/ MutationCalled("add_to_blacklist")
           \/ MutationCalled("remove_from_blacklist")
        /\ policy' # policy) =>
            /\ Len(store') = Len(store) + 1
            /\ IsPrefix(store, store')
            /\ FromJson(store'[Len(store')]).status = "executed"
            /\ FromJson(store'[Len(store')]).permission_level = ADMIN]_vars

\* ------------------------------------------------- allow-list and removal
\* C21: a check that follows addToWhitelist(p, level), of a request whose
\* action type glob-matches p and which the deny check does not match,
\* returns approved without asking the callback or the prompt.
C21_WhitelistApproves ==
    [][(/\ CheckBegins
        /\ ret.op = "add_to_whitelist"
        /\ Fnmatch(call'.action.action_type, ret.pattern)
        /\ ~DenyReference(call'.action)) =>
          /\ ret'.op = "check"
          /\ ret'.result.success = TRUE
          /\ asked' = NotAsked
          /\ pc' = "idle"]_vars

\* The subject is blocked by the deny-list `list`, and by no pattern of it
\* other than p.
OnlyBlockedBy(subject, list, p) ==
    /\ BlacklistScan(subject, list)
    /\ \A i \in 1..Len(list) : PatternBlocks(subject, list[i]) => list[i] = p

\* C22: removeFromBlacklist(p) returns true exactly when the deny-list holds
\* p; then p is gone from the list, the other patterns keep their order, and
\* a request that only p blocked is not denied any more; otherwise the
\* deny-list, the allow-list and the audit trail stay as they are.
C22_RemoveFromBlacklist ==
    [][MutationCalled("remove_from_blacklist") =>
          /\ ret'.value = Contains(blacklist, ret'.pattern)
          /\ ret'.value =>
                /\ ~Contains(blacklist', ret'.pattern)
                /\ blacklist' = SelectSeq(blacklist,
                                          LAMBDA q : q # ret'.pattern)
                /\ \A subject \in Subjects :
                      OnlyBlockedBy(subject, blacklist, ret'.pattern) =>
                          ~BlacklistScan(subject, blacklist')
          /\ ~ret'.value =>
                /\ blacklist' = blacklist
                /\ auto_approve' = auto_approve
                /\ whitelist' = whitelist
                /\ store' = store]_vars

\* ------------------------------------------------------- approval workflow
\* The request goes to the approval workflow: level SAFE_WRITE..ADMIN, no
\* dry run, matched by neither list.
NeedsApproval(action, dry_run) ==
    /\ action.required_level >= SAFE_WRITE
    /\ ~dry_run
    /\ ~DenyReference(action)
    /\ ~AllowMatched(action)

\* C23: with a callback registered, a check that needs approval calls the
\* callback once with (description, preview) and does not prompt; when the
\* callback returns, the check returns its answer as success and has
\* appended, after the pending record, one record: approved for true, denied
\* for false, with the preview in its metadata.
C23_CallbackDecides ==
    [][/\ (/\ CheckBegins
           /\ approval_callback # "None"
           /\ NeedsApproval(call'.action, call'.dry_run)) =>
             /\ pc' = "callback"
             /\ asked' = [callback |-> 1, prompt |-> 0]
             /\ ret'.args = <<call'.action.description,
                              GeneratePreview(call'.action)>>
       /\ \A approved \in BOOLEAN : CallbackReturns(approved) =>
             /\ ret'.op = "check"
             /\ ret'.result.success = approved
             /\ asked' = [callback |-> 1, prompt |-> 0]
             /\ Len(store') = mark + 2
             /\ IsPrefix(store, store')
             /\ FromJson(store'[mark + 2]).status
                   = (IF approved THEN "approved" ELSE "denied")
             /\ <<"preview", GeneratePreview(call.action)>>
                   \in FromJson(store'[mark + 2]).metadata]_vars

C23_Witness ==
    /\ ret.op = "check"
    /\ asked = [callback |-> 1, prompt |-> 0]
    /\ approval_callback = "callable"
    /\ NeedsApproval(call.action, call.dry_run)
    /\ call.action.required_level = ADMIN
    /\ ret.result.success = FALSE
    /\ Len(store) = mark + 2
    /\ FromJson(store[mark + 2]).status = "denied"

\* The status of a denial, in either spelling the gate uses.
DeniedStatus == {"denied", "DENIED"}

\* C24: at the prompt the answers yes, no and never are recognised in any
\* letter case: yes approves, never is refused with status BLACKLISTED, and
\* every other answer, as the end of input or an interrupt, is refused with
\* a denied status and leaves the deny-list as it is.
C24_PromptAnswers ==
    [][\A typed \in Inputs : CliApproval(typed) =>
          /\ ret'.op = "check"
          /\ IF typed # EndOfInput /\ Lower(typed) = <<"y", "e", "s">>
             THEN ret'.result.success = TRUE
             ELSE IF typed # EndOfInput /\ Lower(typed) = Never
             THEN /\ ret'.result.success = FALSE
                  /\ ret'.result.status = "BLACKLISTED"
             ELSE /\ ret'.result.success = FALSE
                  /\ ret'.result.status \in DeniedStatus
                  /\ blacklist' = blacklist]_vars

\* ----------------------------------------------------------- configuration
\* The document at config_path is absent or does not load as a mapping.
FailsToLoad(file) ==
    \/ file = Absent
    \/ file = Unparseable
    \/ file.yaml \in {"str", "list"} /\ ~Falsy(file)

\* C25: construction completes whatever config_path holds, and on a
\* document that is absent or fails to load the gate has the built-in
\* deny-list and auto-approve list.
C25_ConstructionNeverFails ==
    ret.op = "__init__" =>
        /\ ret.outcome.raised = "none"
        /\ pc = "idle"
        /\ FailsToLoad(config_file) =>
              /\ blacklist = DefaultBlacklist
              /\ auto_approve = DefaultAutoApprove

\* Every key of mapping b outside `changed` is a key of a with the same
\* value.
KeptKeys(b, a, changed) ==
    /\ a.yaml = "map"
    /\ \A k \in DOMAIN b.members \ changed :
          k \in DOMAIN a.members /\ a.members[k] = b.members[k]

\* The mapping under key k of mapping m, when there is one.
HasMap(m, k) ==
    m.yaml = "map" /\ k \in DOMAIN m.members /\ m.members[k].yaml = "map"

\* C26: save_config keeps every key of the document other than the two
\* lists of the permissions: the top-level keys (of a document with or
\* without the "friday" wrapper), the keys beside "permissions" under the
\* wrapper, and the other keys of the permissions.
C26_PersistKeepsOtherKeys ==
    [][(ops' = ops + 1 /\ ret'.op = "save_config"
        /\ config_file.yaml = "map") =>
          /\ KeptKeys(config_file, config_file', {"friday", "permissions"})
          /\ HasMap(config_file, "friday") =>
                /\ HasMap(config_file', "friday")
                /\ KeptKeys(config_file.members["friday"],
                            config_file'.members["friday"], {"permissions"})
                /\ HasMap(config_file.members["friday"], "permissions") =>
                      /\ HasMap(config_file'.members["friday"], "permissions")
                      /\ KeptKeys(
                            config_file.members["friday"].members["permissions"],
                            config_file'.members["friday"].members["permissions"],
                            {"auto_approve", "blacklist"})]_vars

\* ------------------------------------------------------------ check results
\* The check has returned a failure with a reason.
DenialReturned(r) ==
    /\ r.op = "check"
    /\ r.result.success = FALSE
    /\ r.result.message # ""

\* C27: a refusal is returned, with a reason: a check that the deny check
\* matches, a callback that answers false and a prompt answered with
\* anything but y or yes each end the check with a result whose success is
\* false and whose message is not empty; and so does every check that
\* returns a failure.
C27_DenialIsReturned ==
    [][/\ CheckBegins /\ DenyReference(call'.action) => DenialReturned(ret')
       /\ CallbackReturns(FALSE) => DenialReturned(ret')
       /\ \A typed \in Inputs :
             (/\ CliApproval(typed)
              /\ Response(typed) \notin {<<"y">>, <<"y", "e", "s">>}) =>
                DenialReturned(ret')
       /\ (ret'.op = "check" /\ ~ret'.result.success) =>
             DenialReturned(ret')]_vars

C27_Witness ==
    /\ DenialReturned(ret)
    /\ ret.result.status = "BLACKLISTED"
    /\ asked = [callback |-> 0, prompt |-> 1]

\* C28: a check called with dry_run returns a result whose dry_run flag is
\* set, whatever its verdict; a check called without it returns the flag
\* set only with status DRY_RUN.
C28_DryRunFlag ==
    ret.op = "check" =>
        /\ call.dry_run => ret.result.dry_run
        /\ (~call.dry_run /\ ret.result.dry_run) =>
              ret.result.status = "DRY_RUN"

C28_Witness ==
    /\ CheckReturned("DENIED")
    /\ call.dry_run
    /\ ret.result.dry_run
    /\ call.action.required_level = EXECUTE

\* --------------------------------------------------------------- round trip
\* C29: for the entry e that log_action created and returned,
\* from_json(to_json(e)) is e, field for field, and get_recent(1) returns
\* e.
C29_RoundTrip ==
    ret.op = "log_action" =>
        /\ FromJson(ToJson(ret.value)) = ret.value
        /\ Recent(store, 1) = Returns(<<ret.value>>)

\* The order the levels are documented in, lowest first.
LevelOrder == <<READ, SUGGEST, SAFE_WRITE, SYSTEM_WRITE, EXECUTE, ADMIN>>

\* The place of a level in that order.
Rank(l) == CHOOSE i \in 1..Len(LevelOrder) : LevelOrder[i] = l

\* C30: the six levels have pairwise distinct values that increase strictly
\* in the order Read, Suggest, SafeWrite, SystemWrite, Execute, Admin, a
\* comparison of two values agrees with that order, and the level of a
\* move is the one of its two levels that stands higher in the order.
C30_LevelOrder ==
    /\ Cardinality(PermissionLevel) = 6
    /\ \A i \in 1..5 : LevelOrder[i] < LevelOrder[i + 1]
    /\ ret.op = "value_less" =>
          (ret.less <=> Rank(ret.left) < Rank(ret.right))
    /\ ret.op = "move_level" =>
          /\ ret.level \in {ret.src_level, ret.dst_level}
          /\ Rank(ret.level) >= Rank(ret.src_level)
          /\ Rank(ret.level) >= Rank(ret.dst_level)

\* A move from a user directory to a system path has been levelled.
C30_Witness ==
    /\ ret.op = "move_level"
    /\ ret.src_level = SAFE_WRITE
    /\ ret.dst_level = SYSTEM_WRITE
    /\ ret.level = SYSTEM_WRITE

\* ------------------------------------------------- gate claims, continued
ApprovedStatus == {"approved", "APPROVED"}

\* The status of a trail record and the status of a result name the same
\* verdict.
SameVerdict(recorded, returned) ==
    \/ recorded = "approved" /\ returned \in ApprovedStatus
    \/ recorded = "denied" /\ returned \in DeniedStatus

\* The records the running (or last) check has appended are its pending
\* record and nothing else.
OnlyPending(lines, m, action) ==
    /\ Len(lines) = m + 1
    /\ IsPendingFor(FromJson(lines[m + 1]), action)

\* The records the check has appended are its pending record and one
\* verdict record with the verdict of the result.
PendingAndVerdict(lines, m, action, result) ==
    /\ Len(lines) = m + 2
    /\ IsPendingFor(FromJson(lines[m + 1]), action)
    /\ SameVerdict(FromJson(lines[m + 2]).status, result.status)

\* A step in which the prompt is answered yes or no (y, n included).
YesNoAnswered ==
    \E typed \in Inputs :
        /\ Response(typed) \in {<<"y">>, <<"y", "e", "s">>, <<"n">>,
                                <<"n", "o">>}
        /\ CliApproval(typed)

\* C31: a check that ends at the Read rule or at the Suggest/dry-run rule
\* appends its pending record and nothing else; a check that ends at the
\* deny-list, at the allow-list, with the callback's answer or with a yes/no
\* answer at the prompt appends its pending record and then one verdict
\* record whose status names the verdict returned.
C31_RecordsPerCheck ==
    [][/\ (CheckBegins /\ ~DenyReference(call'.action)
                       /\ ~AllowMatched(call'.action)
                       /\ \/ call'.action.required_level \in {READ, SUGGEST}
                          \/ call'.dry_run) =>
             /\ ret'.op = "check"
             /\ OnlyPending(store', mark', call'.action)
       /\ (CheckBegins /\ \/ DenyReference(call'.action)
                          \/ AllowMatched(call'.action)) =>
             /\ ret'.op = "check"
             /\ PendingAndVerdict(store', mark', call'.action, ret'.result)
       /\ ((\E approved \in BOOLEAN : CallbackReturns(approved))
              \/ YesNoAnswered) =>
             /\ ret'.op = "check"
             /\ PendingAndVerdict(store', mark', call'.action, ret'.result)
      ]_vars

\* The callback has refused a request: two records.
C31_Witness ==
    /\ CheckReturned("denied")
    /\ asked.callback = 1
    /\ PendingAndVerdict(store, mark, call.action, ret.result)

\* A new check can begin.
CheckCanBegin ==
    ENABLED (\E action \in ActionRequest, dry_run \in BOOLEAN :
                CheckPermission(action, dry_run))

\* C32: when the callback raises, check_permission is left by the exception
\* and returns no result; the trail then holds that check's pending record
\* and no verdict record, the deny-list and the auto-approve list are what
\* they were, and the gate takes the next check, which begins like any
\* other with its own pending record.
C32_CallbackRaises ==
    /\ [][CallbackRaises =>
             /\ ret'.op = "check_raised"
             /\ OnlyPending(store', mark', call'.action)
             /\ blacklist' = blacklist
             /\ auto_approve' = auto_approve
             /\ pc' = "idle"]_vars
    /\ [](ret.op = "check_raised" /\ ops < MaxOps => CheckCanBegin)
    /\ [][ret.op = "check_raised" /\ CheckBegins =>
             /\ mark' = Len(store)
             /\ IsPendingFor(FromJson(store'[mark' + 1]), call'.action)]_vars

\* The callback has raised, and the gate is ready for the next check.
C32_Witness ==
    /\ ret.op = "check_raised"
    /\ call.action.required_level = ADMIN
    /\ OnlyPending(store, mark, call.action)
    /\ CheckCanBegin

\* A step of check_permission: its beginning, or its continuation once the
\* callback or the prompt has answered.
CheckStep == CheckBegins \/ pc # "idle"

\* C33: every step of a check leaves the deny-list, the
\* auto-approve list, the whitelist and the callback as they were, except
\* the answer `never`, which appends exactly one pattern, the request's
\* action type, to the deny-list and leaves the auto-approve list alone.
C33_NeverAppendsOne ==
    [][CheckStep =>
          IF NeverAnswered
          THEN /\ blacklist' = Append(blacklist, call.action.action_type)
               /\ auto_approve' = auto_approve
          ELSE policy' = policy]_vars

\* The frame of a check with the list's own membership test: `never`
\* appends the action type only when the deny-list does not hold it
\* already, and otherwise leaves the deny-list as it was; the whitelist and
\* the callback stay as they were too.
C33_CheckFrame ==
    [][CheckStep =>
          IF NeverAnswered
          THEN /\ blacklist' =
                    IF Contains(blacklist, call.action.action_type)
                    THEN blacklist
                    ELSE Append(blacklist, call.action.action_type)
               /\ auto_approve' = auto_approve
               /\ whitelist' = whitelist
               /\ approval_callback' = approval_callback
          ELSE policy' = policy]_vars

\* The four statuses of a result, as the deny-list, allow-list, dry-run and
\* `never` returns spell them.
ResultStatuses == {"APPROVED", "DENIED", "DRY_RUN", "BLACKLISTED"}

\* C34: every result check_permission returns has one of the four status
\* values, one value for each verdict whichever path produced it, and
\* success is true exactly when the status is Approved or DryRun.
C34_ResultWellFormed ==
    ret.op = "check" =>
        /\ ret.result.status \in ResultStatuses
        /\ ret.result.success <=> ret.result.status \in {"APPROVED", "DRY_RUN"}

\* ----------------------------------------------------- FileOperator claims
\* A step in which a FileOperator method goes on after the gate's answer.
FileOpContinues == \E c \in FileCalls, fails \in BOOLEAN : FileOpEnds(c, fails)

EntryAdded(A) == blacklist' = Append(blacklist, A)

\* The entries a step may add: the patterns of add_to_blacklist and the
\* action types of the requests.
Entries == Patterns \cup {s.action_type : s \in Subjects}

\* C36 as stated: when an entry A is added to the deny-list, every request
\* whose action type is not A and does not glob-match A, and which was not
\* refused before, goes the same way through the check afterwards, whatever
\* its description and target are.
C36_EntryBlocksOnlyItsType ==
    [][\A A \in Entries : EntryAdded(A) =>
          \A r \in ActionRequest, d \in BOOLEAN :
              (/\ r.action_type # A
               /\ ~Fnmatch(r.action_type, A)
               /\ Route(r, d) # "blacklisted") =>
                  Route(r, d)' = Route(r, d)]_vars

\* C36 as amended: the same for every request that A matches in none of
\* the three ways of the deny check: not as a glob of its action type, and
\* not, lower-cased, as a substring of its lower-cased target or
\* description.
C36_EntryBlocksWhatItMatches ==
    [][\A A \in Entries : EntryAdded(A) =>
          \A r \in ActionRequest, d \in BOOLEAN :
              (/\ r.action_type # A
               /\ ~Fnmatch(r.action_type, A)
               /\ r.target # None => ~IsSubstring(Lower(A), Lower(r.target))
               /\ ~IsSubstring(Lower(A), Lower(r.description))
               /\ Route(r, d) # "blacklisted") =>
                  Route(r, d)' = Route(r, d)]_vars

\* `never` has put an action type on the deny-list, and a request for
\* another action type, which the entry matches in no way, still reaches
\* the approval workflow.
C36_Witness ==
    /\ CheckReturned("BLACKLISTED")
    /\ blacklist # <<>>
    /\ blacklist[Len(blacklist)] = call.action.action_type
    /\ \E r \in ActionRequest :
          /\ r.action_type # call.action.action_type
          /\ ~PatternBlocks(r, call.action.action_type)
          /\ Route(r, FALSE) = "request_approval"

\* The deny check and the allow check on given lists.
DenyMatch(r, black) ==
    \E i \in 1..Len(black) :
        \/ Fnmatch(r.action_type, black[i])
        \/ r.target # None /\ IsSubstring(Lower(black[i]), Lower(r.target))
        \/ IsSubstring(Lower(black[i]), Lower(r.description))

AllowMatch(r, auto) == \E i \in 1..Len(auto) : Fnmatch(r.action_type, auto[i])

\* The check asks for approval.
Asks == [status |-> "asks"]

\* What a check returns without asking, as a function of the request, the
\* dry_run flag and the two lists alone; Asks when it asks.
Decided(r, d, black, auto) ==
    IF DenyMatch(r, black)
    THEN [success |-> FALSE, status |-> "DENIED", dry_run |-> d,
          message |-> "This action is blacklisted and cannot be executed."]
    ELSE IF AllowMatch(r, auto)
    THEN [success |-> TRUE, status |-> "APPROVED", dry_run |-> d,
          message |-> "Action is auto-approved."]
    ELSE IF r.required_level = READ
    THEN [success |-> TRUE, status |-> "APPROVED", dry_run |-> d,
          message |-> "Read operations are always permitted."]
    ELSE IF r.required_level = SUGGEST \/ d
    THEN [success |-> TRUE, status |-> "DRY_RUN", dry_run |-> TRUE,
          message |-> "Dry-run mode - action will be previewed only."]
    ELSE Asks

\* What a check returns once the callback has answered, as a function of
\* the flag and the answer.
AnsweredByCallback(d, approved) ==
    [success |-> approved, dry_run |-> d,
     status |-> IF approved THEN "approved" ELSE "denied",
     message |-> IF approved THEN "Action approved by user."
                             ELSE "Action denied by user."]

\* What a check returns once the prompt has been answered, as a function of
\* the flag and the text typed.
AnsweredAtPrompt(d, typed) ==
    LET response == Response(typed) IN
    IF response = Never
    THEN [success |-> FALSE, status |-> "BLACKLISTED", dry_run |-> d,
          message |-> "Action added to blacklist."]
    ELSE IF response \in {<<"y">>, <<"y", "e", "s">>}
    THEN [success |-> TRUE, status |-> "approved", dry_run |-> d,
          message |-> "Action approved."]
    ELSE [success |-> FALSE, status |-> "denied", dry_run |-> d,
          message |-> "Action denied."]

RebuiltAfter(command) ==
    /\ ret.op = command
    /\ ret.outcome = Returns(TRUE)
    /\ Construct

\* C38: a gate built after a command has added a pattern and persisted has
\* the deny-list and the auto-approve list of the gate that persisted, so it
\* denies a request for a pattern added to the deny-list and auto-approves
\* the requests that match a pattern added to the whitelist.
C38_PersistReload ==
    [][/\ (RebuiltAfter("permission_blacklist")
              \/ RebuiltAfter("permission_whitelist")) =>
             /\ pc' = "idle"
             /\ blacklist' = blacklist
             /\ auto_approve' = auto_approve
       /\ RebuiltAfter("permission_blacklist") =>
             Contains(blacklist', ret.pattern)
       /\ RebuiltAfter("permission_whitelist") =>
             \A s \in Subjects :
                 Fnmatch(s.action_type, ret.pattern) =>
                     AllowMatch(s, auto_approve')]_vars

\* The part of C38 about the two lists alone.
C38_ListsReload ==
    [][/\ (RebuiltAfter("permission_blacklist")
              \/ RebuiltAfter("permission_whitelist")) =>
             /\ pc' = "idle"
             /\ blacklist' = blacklist
             /\ auto_approve' = auto_approve
       /\ RebuiltAfter("permission_blacklist") =>
             Contains(blacklist', ret.pattern)
      ]_vars

\* ------------------------------------------------- gate claims, continued
\* C39: a check that the deny-list, the allow-list, the READ rule or the
\* dry-run rule resolves returns in the step it begins in and asks nobody;
\* a check that asks for approval asks once, and returns (or is left by the
\* callback's exception) with the first response, whatever that response
\* is; so, every response arriving in the end, every check ends.
C39_CheckTerminates ==
    /\ [][CheckBegins /\ Decided(call'.action, call'.dry_run, blacklist,
                                 auto_approve) # Asks =>
             /\ ret'.op = "check"
             /\ pc' = "idle"
             /\ asked' = NotAsked]_vars
    /\ [](asked.callback + asked.prompt <= 1)
    /\ [][Answer => pc' = "idle" /\ ret'.op \in {"check", "check_raised"}]_vars
    /\ (pc # "idle") ~> (pc = "idle")

\* A check has returned after one answer at the prompt that is none of
\* yes, no and never.
C39_Witness ==
    /\ CheckReturned("denied")
    /\ asked = [callback |-> 0, prompt |-> 1]
    /\ FromJson(store[Len(store)]).action_description
          = <<"CLI denied: ">> \o call.action.description
    /\ ops = MaxOps

====
